---- MODULE Spec2Model ----
(***************************************************************************)
(* Model of cargo-cgp: the diagnostic database (diagnostic_db.rs), the     *)
(* message pipeline (render.rs, run_check.rs), the relationship            *)
(* deduplicator (root_cause.rs) and the dependency tree builder            *)
(* (error_formatting.rs).                                                  *)
(*                                                                         *)
(* Option<T> is a sequence of length at most one: None is <<>> and Some(x) *)
(* is <<x>>.  In the database part a diagnostic text is represented by the *)
(* facts the pattern extractors of cgp_patterns.rs return on it (one       *)
(* record per message); the order of the children, their levels and the    *)
(* first-match / early-return structure of the extractors are kept.        *)
(***************************************************************************)
EXTENDS Integers, Sequences, FiniteSets, TLC

VARIABLES
    db,        \* DiagnosticDatabase.entries: HashMap<DiagnosticKey, DiagnosticEntry>
    added,     \* history: the diagnostics passed to add_diagnostic, in call order
    lastOp,    \* history: the last operation and its argument, <<"add", d>>, <<"dedup">>, ...
    pc,        \* run_check: "idle" (not running), "reading", "done", "failed"
    mode,      \* run_check: output_format
    consumed,  \* run_check: the messages read from the stream so far
    nonCgp,    \* run_check: non_cgp_messages
    out,       \* run_check: everything written to stdout/stderr, in order
    fn,        \* pure functions: the function applied to arg ("none" before the call)
    arg,       \* pure functions: the input
    res        \* pure functions: the result

vars == <<db, added, lastOp, pc, mode, consumed, nonCgp, out, fn, arg, res>>
runVars == <<pc, mode, consumed, nonCgp, out>>
dbVars == <<db, added, lastOp>>
fnVars == <<fn, arg, res>>

None == <<>>
Some(x) == <<x>>
IsSome(o) == o # <<>>
Unwrap(o) == o[1]

\* Bounds of the model.
MaxAdds == 3

(***************************************************************************)
(* Diagnostic texts.                                                       *)
(***************************************************************************)

\* cgp_patterns.rs: ComponentInfo, with derive_provider_trait_name applied.
ComponentInfo(ct, pt) == [component_type |-> ct, provider_trait |-> pt]

FieldInfo(name, complete, target) ==
    [field_name |-> name, is_complete |-> complete, target_type |-> target]

ProviderRelationship(p, c, x) == [provider_type |-> p, component |-> c, context |-> x]

\* What extract_field_info sees in one message: whether the text contains
\* "HasField" and "is not implemented for", and what the two `?` extractions
\* (symbol, target type) then yield.
NoHasField == [matches |-> FALSE, info |-> None]

\* A message text with the facts the extractors read from it.
Text(t, cgp, comp, consumer, rel, deleg, hasfield, other) ==
    [text |-> t, cgp |-> cgp, comp |-> comp, consumer |-> consumer, rel |-> rel,
     deleg |-> deleg, hasfield |-> hasfield, other_impls |-> other]

AreaComp == ComponentInfo("AreaCalculatorComponent", Some("AreaCalculator"))
DensityComp == ComponentInfo("DensityCalculatorComponent", Some("DensityCalculator"))

RelRectangleArea ==
    ProviderRelationship("RectangleArea", "AreaCalculatorComponent", "Rectangle")
RelScaledArea ==
    ProviderRelationship("ScaledArea<RectangleArea>", "AreaCalculatorComponent", "Rectangle")

FieldHeight == FieldInfo("height", TRUE, "Rectangle")
FieldWidth == FieldInfo("width", TRUE, "Rectangle")

\* Main messages.
MsgCanUseArea ==
    Text("the trait bound Rectangle: CanUseComponent<AreaCalculatorComponent> is not satisfied",
         TRUE, Some(AreaComp), None, None, FALSE, NoHasField, FALSE)
MsgCanUseDensity ==
    Text("the trait bound Rectangle: CanUseComponent<DensityCalculatorComponent> is not satisfied",
         TRUE, Some(DensityComp), None, None, FALSE, NoHasField, FALSE)
MsgUnsatisfied ==
    Text("the trait bound RectangleArea: AreaCalculator<Rectangle> is not satisfied",
         FALSE, None, None, None, FALSE, NoHasField, FALSE)
MsgMismatched ==
    Text("mismatched types", FALSE, None, None, None, FALSE, NoHasField, FALSE)

\* Help texts.
HelpHeight ==
    Text("the trait HasField<Symbol<6, Chars<h, ...>>> is not implemented for Rectangle",
         TRUE, None, None, None, FALSE, [matches |-> TRUE, info |-> Some(FieldHeight)], FALSE)
HelpWidth ==
    Text("the trait HasField<Symbol<5, Chars<w, ...>>> is not implemented for Rectangle",
         TRUE, None, None, None, FALSE, [matches |-> TRUE, info |-> Some(FieldWidth)], FALSE)
HelpNoSymbol ==
    Text("the trait HasField<Index<0>> is not implemented for Rectangle",
         TRUE, None, None, None, FALSE, [matches |-> TRUE, info |-> None], FALSE)
HelpOtherImpls ==
    Text("but trait HasField<Symbol<5, Chars<w, ...>>> is implemented for it",
         TRUE, None, None, None, FALSE, NoHasField, TRUE)

\* Note texts.
NoteBoundCanUse ==
    Text("required by a bound in CanUseComponent",
         TRUE, Some(ComponentInfo("CanUseComponent", Some("CanUse"))),
         Some("CanUseComponent"), None, FALSE, NoHasField, FALSE)
NoteBoundArea ==
    Text("required by a bound in CanCalculateArea",
         FALSE, None, Some("CanCalculateArea"), None, FALSE, NoHasField, FALSE)
NoteRelRectangleArea ==
    Text("required for RectangleArea to implement IsProviderFor<AreaCalculatorComponent, Rectangle>",
         TRUE, Some(ComponentInfo("IsProviderFor<AreaCalculatorComponent",
                                  Some("IsProviderFor<AreaCalculator"))),
         None, Some(RelRectangleArea), TRUE, NoHasField, FALSE)
\* The same note with the provider printed with its module path, which
\* extract_type_from_for_to_implement drops.
NoteRelRectangleAreaWithPath ==
    Text("required for shapes::RectangleArea to implement IsProviderFor<AreaCalculatorComponent, Rectangle>",
         TRUE, Some(ComponentInfo("IsProviderFor<AreaCalculatorComponent",
                                  Some("IsProviderFor<AreaCalculator"))),
         None, Some(RelRectangleArea), TRUE, NoHasField, FALSE)
NoteRelScaledArea ==
    Text("required for ScaledArea<RectangleArea> to implement IsProviderFor<AreaCalculatorComponent, Rectangle>",
         TRUE, Some(ComponentInfo("IsProviderFor<AreaCalculatorComponent",
                                  Some("IsProviderFor<AreaCalculator"))),
         None, Some(RelScaledArea), TRUE, NoHasField, FALSE)
NoteGetter ==
    Text("required for Rectangle to implement HasRectangleFields",
         FALSE, None, None, None, TRUE, NoHasField, FALSE)

Note(m) == [level |-> "Note", message |-> m]
Help(m) == [level |-> "Help", message |-> m]

\* cargo_metadata DiagnosticSpan, the fields the database reads.
Span(file, line, col, primary) ==
    [file_name |-> file, line_start |-> line, column_start |-> col,
     column_end |-> col + 1, is_primary |-> primary]

SpanA == Span("examples/src/density_3.rs", 66, 9, TRUE)
SpanB == Span("examples/src/density_3.rs", 67, 9, TRUE)
\* A span that starts where SpanB starts and ends later.
SpanBWide == [SpanB EXCEPT !.column_end = 20]
SpanSecondary == Span("examples/src/density_3.rs", 60, 1, FALSE)

\* cargo_metadata Diagnostic.
Diagnostic(m, children, spans, code) ==
    [message |-> m, children |-> children, spans |-> spans, code |-> code]

\* The diagnostics the model feeds to the database.
Diagnostics ==
    { Diagnostic(MsgCanUseArea, <<Help(HelpHeight), Note(NoteRelRectangleArea), Note(NoteGetter)>>,
                 <<SpanA>>, Some("E0277")),
      Diagnostic(MsgCanUseArea, <<Note(NoteBoundArea)>>, <<SpanSecondary, SpanA>>, None),
      Diagnostic(MsgCanUseArea, <<Help(HelpWidth), Help(HelpOtherImpls), Note(NoteBoundCanUse),
                                  Note(NoteRelScaledArea)>>,
                 <<SpanA>>, Some("E0599")),
      Diagnostic(MsgCanUseDensity, <<>>, <<SpanA>>, Some("E0277")),
      Diagnostic(MsgCanUseDensity, <<Note(NoteRelRectangleArea)>>, <<SpanA>>, None),
      Diagnostic(MsgCanUseDensity, <<Help(HelpHeight)>>, <<SpanB>>, Some("E0277")),
      Diagnostic(MsgUnsatisfied, <<Note(NoteGetter)>>, <<SpanB>>, None),
      Diagnostic(MsgUnsatisfied, <<Help(HelpNoSymbol), Help(HelpHeight)>>, <<SpanB>>, None),
      Diagnostic(MsgUnsatisfied, <<Help(HelpOtherImpls)>>, <<SpanA>>, Some("E0277")),
      Diagnostic(MsgCanUseArea, <<Help(HelpHeight)>>, <<SpanSecondary>>, Some("E0277")),
      Diagnostic(MsgCanUseArea, <<Note(NoteRelRectangleAreaWithPath), Note(NoteRelRectangleArea)>>,
                 <<SpanB>>, None),
      Diagnostic(MsgMismatched, <<>>, <<SpanB>>, Some("E0308")),
      Diagnostic(MsgUnsatisfied, <<>>, <<SpanBWide>>, None) }

(***************************************************************************)
(* cgp_patterns.rs: the extractors, on the facts of a text.                *)
(***************************************************************************)

\* The first element of seq satisfying P, as an Option (Iterator::find).
FirstIndex(S) == CHOOSE i \in S : \A j \in S : i <= j

contains_cgp_pattern(m) == m.cgp

is_cgp_diagnostic(d) ==
    \/ contains_cgp_pattern(d.message)
    \/ \E i \in 1..Len(d.children) : contains_cgp_pattern(d.children[i].message)

extract_component_info(m) == m.comp

extract_consumer_trait(m) == m.consumer

extract_provider_relationship(m) == m.rel

extract_field_info(d) ==
    LET hits == { i \in 1..Len(d.children) :
                    /\ d.children[i].level = "Help"
                    /\ d.children[i].message.hasfield.matches }
    IN  IF hits = {} THEN None
        ELSE d.children[FirstIndex(hits)].message.hasfield.info

has_other_hasfield_implementations(d) ==
    \E i \in 1..Len(d.children) :
        /\ d.children[i].level = "Help"
        /\ d.children[i].message.other_impls

(***************************************************************************)
(* diagnostic_db.rs                                                        *)
(***************************************************************************)

SourceLocation_from_span(span) ==
    [file |-> span.file_name, line |-> span.line_start, column |-> span.column_start]

DiagnosticKey(location, component) == [location |-> location, component |-> component]

\* diagnostic.spans.iter().find(|s| s.is_primary)
find_primary_span(d) ==
    LET hits == { i \in 1..Len(d.spans) : d.spans[i].is_primary }
    IN  IF hits = {} THEN None ELSE Some(d.spans[FirstIndex(hits)])

extract_component_info_from_diagnostic(d) ==
    IF IsSome(extract_component_info(d.message)) THEN extract_component_info(d.message)
    ELSE LET hits == { i \in 1..Len(d.children) :
                         IsSome(extract_component_info(d.children[i].message)) }
         IN  IF hits = {} THEN None
             ELSE extract_component_info(d.children[FirstIndex(hits)].message)

extract_consumer_trait_from_diagnostic(d) ==
    LET hits == { i \in 1..Len(d.children) :
                    /\ d.children[i].level = "Note"
                    /\ IsSome(extract_consumer_trait(d.children[i].message)) }
    IN  IF hits = {} THEN None
        ELSE extract_consumer_trait(d.children[FirstIndex(hits)].message)

IsRelNote(c) == c.level = "Note" /\ IsSome(extract_provider_relationship(c.message))
RelOfNote(c) == Unwrap(extract_provider_relationship(c.message))

extract_provider_relationships_from_diagnostic(d) ==
    LET notes == SelectSeq(d.children, IsRelNote)
    IN  [i \in 1..Len(notes) |-> RelOfNote(notes[i])]

IsDelegationNote(c) == c.level = "Note" /\ c.message.deleg
TextOfNote(c) == c.message.text

extract_delegation_notes(d) ==
    LET notes == SelectSeq(d.children, IsDelegationNote)
    IN  [i \in 1..Len(notes) |-> TextOfNote(notes[i])]

\* The grouping key add_diagnostic computes (for a diagnostic with a primary span).
key_of(d) ==
    LET component_info == extract_component_info_from_diagnostic(d)
    IN  DiagnosticKey(SourceLocation_from_span(Unwrap(find_primary_span(d))),
                      IF IsSome(component_info)
                      THEN Some(Unwrap(component_info).component_type) ELSE None)

create_entry(d, primary_span) ==
    LET field_info == extract_field_info(d)
    IN  [original |-> d,
         field_info |-> field_info,
         component_info |-> extract_component_info_from_diagnostic(d),
         consumer_trait |-> extract_consumer_trait_from_diagnostic(d),
         provider_relationships |-> extract_provider_relationships_from_diagnostic(d),
         delegation_notes |-> extract_delegation_notes(d),
         has_other_hasfield_impls |-> has_other_hasfield_implementations(d),
         primary_span |-> Some(primary_span),
         error_code |-> d.code,
         message |-> d.message.text,
         is_root_cause |-> IsSome(field_info),
         suppressed |-> FALSE]

InSeq(x, s) == \E i \in 1..Len(s) : s[i] = x

\* for x in new { if !acc.contains(&x) { acc.push(x) } }
RECURSIVE PushNovel(_, _)
PushNovel(acc, new) ==
    IF new = <<>> THEN acc
    ELSE PushNovel(IF InSeq(Head(new), acc) THEN acc ELSE Append(acc, Head(new)), Tail(new))

\* merge_diagnostic_info with the latest value winning wherever the new
\* diagnostic carries one.
merge_diagnostic_info_latest_wins(existing, new) ==
    [existing EXCEPT
        !.field_info = IF IsSome(extract_field_info(new)) THEN extract_field_info(new) ELSE @,
        !.is_root_cause = IF IsSome(extract_field_info(new)) THEN TRUE ELSE @,
        !.component_info =
            IF IsSome(@) THEN @ ELSE extract_component_info_from_diagnostic(new),
        !.consumer_trait =
            IF IsSome(extract_consumer_trait_from_diagnostic(new))
            THEN extract_consumer_trait_from_diagnostic(new) ELSE @,
        !.provider_relationships =
            PushNovel(@, extract_provider_relationships_from_diagnostic(new)),
        !.delegation_notes = PushNovel(@, extract_delegation_notes(new)),
        !.has_other_hasfield_impls =
            IF @ THEN @ ELSE has_other_hasfield_implementations(new),
        !.error_code = IF IsSome(new.code) THEN new.code ELSE @]

\* merge_diagnostic_info without the guard on the consumer trait and the
\* error code: they are assigned from the new diagnostic unconditionally.
merge_diagnostic_info_unguarded(existing, new) ==
    LET fills_field == ~IsSome(existing.field_info) /\ IsSome(extract_field_info(new))
    IN  [existing EXCEPT
            !.field_info = IF fills_field THEN extract_field_info(new) ELSE @,
            !.is_root_cause = IF fills_field THEN TRUE ELSE @,
            !.component_info =
                IF IsSome(@) THEN @ ELSE extract_component_info_from_diagnostic(new),
            !.consumer_trait = extract_consumer_trait_from_diagnostic(new),
            !.provider_relationships =
                PushNovel(@, extract_provider_relationships_from_diagnostic(new)),
            !.delegation_notes = PushNovel(@, extract_delegation_notes(new)),
            !.has_other_hasfield_impls =
                IF @ THEN @ ELSE has_other_hasfield_implementations(new),
            !.error_code = new.code]

\* merge_diagnostic_info taking the message and the primary span of the new
\* diagnostic as well.
merge_diagnostic_info_latest_primary(existing, new) ==
    LET fills_field == ~IsSome(existing.field_info) /\ IsSome(extract_field_info(new))
    IN  [existing EXCEPT
            !.field_info = IF fills_field THEN extract_field_info(new) ELSE @,
            !.is_root_cause = IF fills_field THEN TRUE ELSE @,
            !.component_info =
                IF IsSome(@) THEN @ ELSE extract_component_info_from_diagnostic(new),
            !.consumer_trait =
                IF IsSome(@) THEN @ ELSE extract_consumer_trait_from_diagnostic(new),
            !.provider_relationships =
                PushNovel(@, extract_provider_relationships_from_diagnostic(new)),
            !.delegation_notes = PushNovel(@, extract_delegation_notes(new)),
            !.has_other_hasfield_impls =
                IF @ THEN @ ELSE has_other_hasfield_implementations(new),
            !.error_code = IF IsSome(@) THEN @ ELSE new.code,
            !.primary_span = find_primary_span(new),
            !.message = new.message.text]

\* merge_diagnostic_info filling in the field info without raising the
\* root-cause flag.
merge_diagnostic_info_flag_kept(existing, new) ==
    LET fills_field == ~IsSome(existing.field_info) /\ IsSome(extract_field_info(new))
    IN  [existing EXCEPT
            !.field_info = IF fills_field THEN extract_field_info(new) ELSE @,
            !.component_info =
                IF IsSome(@) THEN @ ELSE extract_component_info_from_diagnostic(new),
            !.consumer_trait =
                IF IsSome(@) THEN @ ELSE extract_consumer_trait_from_diagnostic(new),
            !.provider_relationships =
                PushNovel(@, extract_provider_relationships_from_diagnostic(new)),
            !.delegation_notes = PushNovel(@, extract_delegation_notes(new)),
            !.has_other_hasfield_impls =
                IF @ THEN @ ELSE has_other_hasfield_implementations(new),
            !.error_code = IF IsSome(@) THEN @ ELSE new.code]

merge_diagnostic_info(existing, new) ==
    LET fills_field == ~IsSome(existing.field_info) /\ IsSome(extract_field_info(new))
    IN  [existing EXCEPT
            !.field_info = IF fills_field THEN extract_field_info(new) ELSE @,
            !.is_root_cause = IF fills_field THEN TRUE ELSE @,
            !.component_info =
                IF IsSome(@) THEN @ ELSE extract_component_info_from_diagnostic(new),
            !.consumer_trait =
                IF IsSome(@) THEN @ ELSE extract_consumer_trait_from_diagnostic(new),
            !.provider_relationships =
                PushNovel(@, extract_provider_relationships_from_diagnostic(new)),
            !.delegation_notes = PushNovel(@, extract_delegation_notes(new)),
            !.has_other_hasfield_impls =
                IF @ THEN @ ELSE has_other_hasfield_implementations(new),
            !.error_code = IF IsSome(@) THEN @ ELSE new.code]

\* HashMap::insert on a map that has no entry at key.
MapInsert(entries, key, entry) ==
    [k \in DOMAIN entries \cup {key} |-> IF k = key THEN entry ELSE entries[k]]

\* add_diagnostic grouping by the primary location alone.
add_diagnostic_by_location(entries, d) ==
    LET primary_span == find_primary_span(d)
        key == DiagnosticKey(SourceLocation_from_span(Unwrap(primary_span)), None)
    IN  IF ~IsSome(primary_span) THEN entries
        ELSE IF key \in DOMAIN entries
             THEN [entries EXCEPT ![key] = merge_diagnostic_info(@, d)]
             ELSE MapInsert(entries, key, create_entry(d, Unwrap(primary_span)))

\* add_diagnostic taking the first span when none is flagged primary.
add_diagnostic_first_span(entries, d) ==
    LET primary_span == IF IsSome(find_primary_span(d)) THEN find_primary_span(d)
                        ELSE Some(d.spans[1])
        component_info == extract_component_info_from_diagnostic(d)
        key == DiagnosticKey(SourceLocation_from_span(Unwrap(primary_span)),
                             IF IsSome(component_info)
                             THEN Some(Unwrap(component_info).component_type) ELSE None)
    IN  IF key \in DOMAIN entries
        THEN [entries EXCEPT ![key] = merge_diagnostic_info(@, d)]
        ELSE MapInsert(entries, key, create_entry(d, Unwrap(primary_span)))

add_diagnostic(entries, d) ==
    LET primary_span == find_primary_span(d)
    IN  IF ~IsSome(primary_span) THEN entries
        ELSE IF key_of(d) \in DOMAIN entries
             THEN [entries EXCEPT ![key_of(d)] = merge_diagnostic_info(@, d)]
             ELSE MapInsert(entries, key_of(d), create_entry(d, Unwrap(primary_span)))

\* find_related_with_field_info accepting an entry at any location.
find_related_with_field_info_anywhere(entries, key) ==
    LET hits == { other_key \in DOMAIN entries : IsSome(entries[other_key].field_info) }
    IN  IF hits = {} THEN None ELSE Some(CHOOSE k \in hits : TRUE)

find_related_with_field_info(entries, key) ==
    LET hits == { other_key \in DOMAIN entries :
                    /\ other_key.location = key.location
                    /\ IsSome(entries[other_key].field_info) }
    IN  IF hits = {} THEN None ELSE Some(CHOOSE k \in hits : TRUE)

\* keys_to_suppress without the has_useful_delegation_info test.
keys_to_suppress_any(entries) ==
    { key \in DOMAIN entries :
        /\ ~IsSome(entries[key].field_info)
        /\ IsSome(find_related_with_field_info(entries, key)) }

\* The keys deduplicate collects in keys_to_suppress.
keys_to_suppress(entries) ==
    { key \in DOMAIN entries :
        /\ ~IsSome(entries[key].field_info)
        /\ IsSome(find_related_with_field_info(entries, key))
        /\ ~(entries[key].delegation_notes # <<>> \/ entries[key].provider_relationships # <<>>) }

\* deduplicate removing the redundant entries instead of flagging them.
deduplicate_removing(entries) ==
    [key \in DOMAIN entries \ keys_to_suppress(entries) |-> entries[key]]

\* deduplicate computing every flag afresh from the current entries.
deduplicate_recomputing(entries) ==
    [key \in DOMAIN entries |->
        [entries[key] EXCEPT !.suppressed = (key \in keys_to_suppress(entries))]]

deduplicate(entries) ==
    [key \in DOMAIN entries |->
        IF key \in keys_to_suppress(entries)
        THEN [entries[key] EXCEPT !.suppressed = TRUE]
        ELSE entries[key]]

get_active_entries(entries) ==
    { entries[k] : k \in { k \in DOMAIN entries : ~entries[k].suppressed } }

get_all_entries(entries) == { entries[k] : k \in DOMAIN entries }

(***************************************************************************)
(* The database under arbitrary calls.                                     *)
(***************************************************************************)

EmptyMap == [k \in {} |-> None]

RunIdle ==
    /\ pc = "idle"
    /\ mode = "Human"
    /\ consumed = <<>>
    /\ nonCgp = <<>>
    /\ out = <<>>

FnIdle ==
    /\ fn = "none"
    /\ arg = None
    /\ res = None

Init ==
    /\ db = EmptyMap
    /\ added = <<>>
    /\ lastOp = <<"new">>
    /\ RunIdle
    /\ FnIdle

AddDiagnostic ==
    /\ Len(added) < MaxAdds
    /\ \E d \in Diagnostics :
        /\ db' = add_diagnostic(db, d)
        /\ added' = Append(added, d)
        /\ lastOp' = <<"add", d>>
    /\ UNCHANGED <<runVars, fnVars>>

Deduplicate ==
    /\ db' = deduplicate(db)
    /\ lastOp' = <<"dedup">>
    /\ UNCHANGED <<added, runVars, fnVars>>

Next == AddDiagnostic \/ Deduplicate

Spec == Init /\ [][Next]_vars

(***************************************************************************)
(* Properties of the database.                                             *)
(***************************************************************************)

\* The calls of add_diagnostic that passed the primary-span test.
Keyed == { i \in 1..Len(added) : IsSome(find_primary_span(added[i])) }
KeysAdded == { key_of(added[i]) : i \in Keyed }
AddedAt(k) == { i \in Keyed : key_of(added[i]) = k }

\* The grouping key an entry carries in its own fields.
EntryKey(e) ==
    DiagnosticKey(SourceLocation_from_span(Unwrap(e.primary_span)),
                  IF IsSome(e.component_info)
                  THEN Some(Unwrap(e.component_info).component_type) ELSE None)

\* C1: after any sequence of add_diagnostic calls the database holds exactly
\* one entry per grouping key (primary location, component or absent) among
\* the diagnostics added: no two entries carry the same key, a diagnostic at
\* an existing key was merged into the entry the first diagnostic at that
\* key created, and each new key created one entry.
C1_OneEntryPerKey ==
    /\ DOMAIN db = KeysAdded
    /\ Cardinality(get_all_entries(db)) = Cardinality(KeysAdded)
    /\ \A e1, e2 \in get_all_entries(db) : EntryKey(e1) = EntryKey(e2) => e1 = e2
    /\ \A k \in DOMAIN db :
        /\ EntryKey(db[k]) = k
        /\ db[k].original = added[FirstIndex(AddedAt(k))]

\* Two diagnostics were added at one key and a third at another.
C1_Witness ==
    /\ Cardinality(DOMAIN db) >= 2
    /\ \E k \in DOMAIN db : Cardinality(AddedAt(k)) >= 2

\* C2: an entry has field info, a consumer trait name, an error code exactly
\* when some diagnostic added at its key yields one, whatever the order of
\* the additions; so no add_diagnostic call makes a present one absent.
C2_MergeMonotone ==
    \A k \in DOMAIN db :
        /\ IsSome(db[k].field_info) <=>
              \E i \in AddedAt(k) : IsSome(extract_field_info(added[i]))
        /\ IsSome(db[k].consumer_trait) <=>
              \E i \in AddedAt(k) : IsSome(extract_consumer_trait_from_diagnostic(added[i]))
        /\ IsSome(db[k].error_code) <=>
              \E i \in AddedAt(k) : IsSome(added[i].code)

\* An entry whose field info came from a later diagnostic than the one that
\* gave it its consumer trait, the two being absent from the other one.
C2_Witness ==
    \E k \in DOMAIN db : \E i, j \in AddedAt(k) :
        /\ i < j
        /\ ~IsSome(extract_field_info(added[i])) /\ IsSome(extract_field_info(added[j]))
        /\ IsSome(extract_consumer_trait_from_diagnostic(added[i]))
        /\ ~IsSome(extract_consumer_trait_from_diagnostic(added[j]))
        /\ ~IsSome(added[i].code) /\ IsSome(added[j].code)
        /\ IsSome(db[k].field_info) /\ IsSome(db[k].consumer_trait) /\ IsSome(db[k].error_code)

Kept(o, o2) == IsSome(o) => o2 = o

\* C3: once an entry's field info, component info, consumer trait name or
\* error code is present, every later step leaves that value as it was.
C3_OnlyFillsGaps ==
    [][\A k \in DOMAIN db :
          /\ k \in DOMAIN db'
          /\ Kept(db[k].field_info, db'[k].field_info)
          /\ Kept(db[k].component_info, db'[k].component_info)
          /\ Kept(db[k].consumer_trait, db'[k].consumer_trait)
          /\ Kept(db[k].error_code, db'[k].error_code)]_vars

\* A later diagnostic at the key carried another field info, another consumer
\* trait or another error code than the entry holds.
C3_Witness ==
    \E k \in DOMAIN db : \E i \in AddedAt(k) :
        /\ IsSome(extract_field_info(added[i]))
        /\ extract_field_info(added[i]) # db[k].field_info
        /\ IsSome(added[i].code)
        /\ added[i].code # db[k].error_code
        /\ \E j \in AddedAt(k) :
            /\ IsSome(extract_consumer_trait_from_diagnostic(added[j]))
            /\ extract_consumer_trait_from_diagnostic(added[j]) # db[k].consumer_trait

SameLocationWithField(entries, k) ==
    { o \in DOMAIN entries : o # k /\ o.location = k.location
                             /\ IsSome(entries[o].field_info) }

Elems(s) == { s[i] : i \in 1..Len(s) }

\* C5 as claimed: deduplicate suppresses an entry exactly when it lacks field
\* info, another entry at its location has field info, and it carries no
\* relationship or delegation note absent from that entry.
C5_SuppressedIffNothingUnique ==
    [][lastOp'[1] = "dedup" =>
        \A k \in DOMAIN db : ~db[k].suppressed =>
            (db'[k].suppressed <=>
                /\ ~IsSome(db[k].field_info)
                /\ \E o \in SameLocationWithField(db, k) :
                    /\ Elems(db[k].provider_relationships)
                          \subseteq Elems(db[o].provider_relationships)
                    /\ Elems(db[k].delegation_notes)
                          \subseteq Elems(db[o].delegation_notes))]_vars

\* C5 as amended: deduplicate suppresses an entry exactly when it lacks field
\* info, another entry at its location has field info, and it carries no
\* relationship and no delegation note at all.
C5_SuppressedIffNoDelegationInfo ==
    [][lastOp'[1] = "dedup" =>
        \A k \in DOMAIN db : ~db[k].suppressed =>
            (db'[k].suppressed <=>
                /\ ~IsSome(db[k].field_info)
                /\ SameLocationWithField(db, k) # {}
                /\ db[k].provider_relationships = <<>>
                /\ db[k].delegation_notes = <<>>)]_vars

\* After deduplicate: at one location a field-specific entry, a generic entry
\* that is suppressed, and a generic entry kept for its relationship.
C5_Witness ==
    /\ lastOp[1] = "dedup"
    /\ \E k, g \in DOMAIN db :
        /\ db[k].suppressed /\ ~db[g].suppressed
        /\ g.location = k.location
        /\ ~IsSome(db[g].field_info)
        /\ db[g].provider_relationships # <<>>
        /\ SameLocationWithField(db, g) # {}

\* C6: get_active_entries is exactly the entries not flagged suppressed; a
\* suppressed entry stays in the database (every key added is still there and
\* get_all_entries returns it) and is not among the active entries.
C6_SuppressedStaysInactive ==
    /\ get_active_entries(db) = { e \in get_all_entries(db) : ~e.suppressed }
    /\ KeysAdded \subseteq DOMAIN db
    /\ \A k \in DOMAIN db :
        /\ db[k] \in get_all_entries(db)
        /\ db[k].suppressed => db[k] \notin get_active_entries(db)
        /\ ~db[k].suppressed => db[k] \in get_active_entries(db)

\* Some entry is suppressed and some is active.
C6_Witness ==
    /\ \E k \in DOMAIN db : db[k].suppressed
    /\ \E k \in DOMAIN db : ~db[k].suppressed
    /\ Cardinality(get_active_entries(db)) < Cardinality(get_all_entries(db))

(***************************************************************************)
(* render.rs and run_check.rs: the pipeline over the message stream.       *)
(***************************************************************************)

MaxMessages == 3

\* cargo_metadata::Message.
CompilerMessage(d, rendered) ==
    [type |-> "CompilerMessage", message |-> d, rendered |-> rendered]
CompilerArtifact(name, fresh) ==
    [type |-> "CompilerArtifact", name |-> name, fresh |-> fresh]
BuildFinished(success) == [type |-> "BuildFinished", success |-> success]
BuildScriptExecuted == [type |-> "BuildScriptExecuted"]
TextLine == [type |-> "TextLine"]

DiagAreaHeight ==
    Diagnostic(MsgCanUseArea, <<Help(HelpHeight), Note(NoteRelRectangleArea), Note(NoteGetter)>>,
               <<SpanA>>, Some("E0277"))
DiagDensityBare == Diagnostic(MsgCanUseDensity, <<>>, <<SpanA>>, Some("E0277"))
\* CGP only through a child: the top-level message has no CGP pattern.
DiagUnsatisfiedGetter == Diagnostic(MsgUnsatisfied, <<Help(HelpOtherImpls)>>, <<SpanA>>, Some("E0277"))
DiagMismatched == Diagnostic(MsgMismatched, <<>>, <<SpanB>>, Some("E0308"))

\* The messages cargo check may write to the stream.
Messages ==
    { CompilerMessage(DiagAreaHeight, Some("error[E0277]: the trait bound ...")),
      CompilerMessage(DiagDensityBare, Some("error[E0277]: the trait bound ...")),
      CompilerMessage(DiagUnsatisfiedGetter, None),
      CompilerMessage(DiagMismatched, Some("error[E0308]: mismatched types")),
      CompilerMessage(DiagMismatched, None),
      CompilerArtifact("examples", FALSE),
      BuildFinished(FALSE),
      BuildScriptExecuted,
      TextLine }

\* One write to a stream; `after` is the number of messages read when it
\* was written.
Written(chan, kind, item, after) ==
    [chan |-> chan, kind |-> kind, item |-> item, after |-> after]

Outcome(entries, absorbed, printed, ret) ==
    [db |-> entries, absorbed |-> absorbed, printed |-> printed, ret |-> ret]

\* render_message_with_mode printing the compiler's rendering of a CGP
\* message at once, as it does for the others.
render_message_with_mode_eager(message, entries, rmode, n) ==
    IF message.type = "CompilerMessage"
    THEN IF rmode = "Human"
         THEN Outcome(IF is_cgp_diagnostic(message.message)
                      THEN add_diagnostic(entries, message.message) ELSE entries,
                      is_cgp_diagnostic(message.message),
                      IF IsSome(message.rendered)
                      THEN <<Written("stdout", "rendered", message, n)>> ELSE <<>>, None)
         ELSE Outcome(IF is_cgp_diagnostic(message.message)
                      THEN add_diagnostic(entries, message.message) ELSE entries,
                      is_cgp_diagnostic(message.message), <<>>, Some(message))
    ELSE IF rmode = "Json" THEN Outcome(entries, FALSE, <<>>, Some(message))
    ELSE IF message.type = "CompilerArtifact"
    THEN Outcome(entries, FALSE, <<Written("stderr", "artifact", message, n)>>, None)
    ELSE IF message.type = "BuildFinished" /\ ~message.success
    THEN Outcome(entries, FALSE, <<Written("stderr", "build_failed", message, n)>>, None)
    ELSE Outcome(entries, FALSE, <<>>, None)

\* render_message_with_mode handing every compiler message to the database,
\* without asking is_cgp_diagnostic.
render_message_with_mode_add_all(message, entries, rmode, n) ==
    IF message.type = "CompilerMessage"
    THEN Outcome(add_diagnostic(entries, message.message), TRUE, <<>>, None)
    ELSE IF rmode = "Json" THEN Outcome(entries, FALSE, <<>>, Some(message))
    ELSE IF message.type = "CompilerArtifact"
    THEN Outcome(entries, FALSE, <<Written("stderr", "artifact", message, n)>>, None)
    ELSE IF message.type = "BuildFinished" /\ ~message.success
    THEN Outcome(entries, FALSE, <<Written("stderr", "build_failed", message, n)>>, None)
    ELSE Outcome(entries, FALSE, <<>>, None)

\* render_message_with_mode: the database after the call, whether the message
\* was handed to add_diagnostic, what the call printed and what it returned.
render_message_with_mode(message, entries, rmode, n) ==
    IF message.type = "CompilerMessage"
    THEN IF is_cgp_diagnostic(message.message)
         THEN Outcome(add_diagnostic(entries, message.message), TRUE, <<>>, None)
         ELSE IF rmode = "Human"
              THEN Outcome(entries, FALSE,
                           IF IsSome(message.rendered)
                           THEN <<Written("stdout", "rendered", message, n)>> ELSE <<>>,
                           None)
              ELSE Outcome(entries, FALSE, <<>>, Some(message))
    ELSE IF message.type = "CompilerArtifact"
    THEN IF rmode = "Human"
         THEN Outcome(entries, FALSE, <<Written("stderr", "artifact", message, n)>>, None)
         ELSE Outcome(entries, FALSE, <<>>, Some(message))
    ELSE IF message.type = "BuildScriptExecuted"
    THEN IF rmode = "Human"
         THEN Outcome(entries, FALSE, <<>>, None)
         ELSE Outcome(entries, FALSE, <<>>, Some(message))
    ELSE IF message.type = "BuildFinished"
    THEN IF rmode = "Human"
         THEN Outcome(entries, FALSE,
                      IF ~message.success
                      THEN <<Written("stderr", "build_failed", message, n)>> ELSE <<>>,
                      None)
         ELSE Outcome(entries, FALSE, <<>>, Some(message))
    ELSE IF rmode = "Human"
         THEN Outcome(entries, FALSE, <<>>, None)
         ELSE Outcome(entries, FALSE, <<>>, Some(message))

\* render_message: Human mode, the return value dropped.
render_message(message, entries, n) ==
    [render_message_with_mode(message, entries, "Human", n) EXCEPT !.ret = None]

\* The orders in which a HashMap may yield the given keys.
Orders(S) ==
    { f \in [1..Cardinality(S) -> S] : \A i, j \in 1..Cardinality(S) : f[i] = f[j] => i = j }

ActiveKeys(entries) == { k \in DOMAIN entries : ~entries[k].suppressed }

\* DiagnosticDatabase::render_compiler_messages and
\* render_cgp_errors_with_miette: deduplicate, then one rendering per active
\* entry, in the order `order` of the active keys.
render_active_entries(entries, order, n) ==
    [i \in 1..Len(order) |-> Written("stdout", "cgp", order[i], n)]

InitRun ==
    /\ db = EmptyMap
    /\ added = <<>>
    /\ lastOp = <<"new">>
    /\ pc = "reading"
    /\ mode \in {"Human", "Short", "Json"}
    /\ consumed = <<>>
    /\ nonCgp = <<>>
    /\ out = <<>>
    /\ FnIdle

\* One iteration of the loop over the stream.
ReadMessage ==
    /\ pc = "reading"
    /\ Len(consumed) < MaxMessages
    /\ \E message \in Messages :
        LET n == Len(consumed) + 1
            r == IF mode = "Json"
                 THEN render_message_with_mode(message, db, "Json", n)
                 ELSE render_message(message, db, n)
        IN  /\ consumed' = Append(consumed, message)
            /\ db' = r.db
            /\ added' = IF r.absorbed THEN Append(added, message.message) ELSE added
            /\ lastOp' = IF r.absorbed THEN <<"add", message.message>> ELSE <<"skip">>
            /\ out' = out \o r.printed
            /\ nonCgp' = IF IsSome(r.ret) THEN Append(nonCgp, Unwrap(r.ret)) ELSE nonCgp
    /\ UNCHANGED <<pc, mode, fnVars>>

\* The stream yields an Err: run_check returns it through `?`.
ReadError ==
    /\ pc = "reading"
    /\ pc' = "failed"
    /\ lastOp' = <<"error">>
    /\ UNCHANGED <<db, added, mode, consumed, nonCgp, out, fnVars>>

\* The stream has ended: the code after the loop.
EndOfStream ==
    /\ pc = "reading"
    /\ \E order \in Orders(ActiveKeys(deduplicate(db))) :
        LET n == Len(consumed)
            passed == [i \in 1..Len(nonCgp) |-> Written("stdout", "json", nonCgp[i], n)]
        IN  out' = out \o (IF mode = "Json" THEN passed ELSE <<>>)
                       \o render_active_entries(deduplicate(db), order, n)
    /\ db' = deduplicate(db)
    /\ lastOp' = <<"dedup">>
    /\ \E success \in BOOLEAN : pc' = IF success THEN "done" ELSE "exited"
    /\ UNCHANGED <<added, mode, consumed, nonCgp, fnVars>>

NextRun == ReadMessage \/ ReadError \/ EndOfStream

SpecRun == InitRun /\ [][NextRun]_vars

IsCgpMessage(message) ==
    message.type = "CompilerMessage" /\ is_cgp_diagnostic(message.message)

CgpRead == SelectSeq(consumed, IsCgpMessage)

\* C4: every message is_cgp_diagnostic classifies as CGP is handed to the
\* database when it is read and nothing is written or collected for it then;
\* while the stream is still being read no entry is rendered and no
\* deduplication has run; the entries are rendered only after the last
\* message, every active one once.
C4_BatchBoundary ==
    /\ added = [i \in 1..Len(CgpRead) |-> CgpRead[i].message]
    /\ DOMAIN db = KeysAdded
    /\ \A i \in 1..Len(nonCgp) : ~IsCgpMessage(nonCgp[i])
    /\ \A i \in 1..Len(out) :
        /\ out[i].kind # "cgp" =>
              /\ ~IsCgpMessage(out[i].item)
              /\ out[i].kind # "json" => ~IsCgpMessage(consumed[out[i].after])
        /\ out[i].kind = "cgp" =>
              /\ pc \in {"done", "exited"}
              /\ out[i].after = Len(consumed)
              /\ out[i].item \in ActiveKeys(db)
    /\ pc = "reading" =>
        /\ lastOp[1] # "dedup"
        /\ \A k \in DOMAIN db : ~db[k].suppressed
    /\ pc = "failed" => \A i \in 1..Len(out) : out[i].kind # "cgp"
    /\ pc \in {"done", "exited"} =>
        \A k \in ActiveKeys(db) :
            Cardinality({ i \in 1..Len(out) : out[i].kind = "cgp" /\ out[i].item = k }) = 1

\* A CGP message was read before a message that printed at once, and its
\* entry was rendered after the stream ended, behind that output.
C4_Witness ==
    /\ pc = "done"
    /\ Len(consumed) >= 2
    /\ IsCgpMessage(consumed[1])
    /\ \E i, j \in 1..Len(out) :
        /\ i < j
        /\ out[i].kind = "rendered" /\ out[i].after = 2
        /\ out[j].kind = "cgp" /\ out[j].after = Len(consumed)
    /\ \E k \in DOMAIN db : db[k].suppressed

(***************************************************************************)
(* Strings as sequences of characters, with the str methods the code       *)
(* calls.  Offsets are counted from 0, as in Rust.                          *)
(***************************************************************************)

\* The backtick character.
Tick == "tick"

IsPrefixAt(s, p, i) == i + Len(p) <= Len(s) /\ SubSeq(s, i + 1, i + Len(p)) = p

Matches(s, p) == { i \in 0..(Len(s) - Len(p)) : IsPrefixAt(s, p, i) }

LastIndex(S) == CHOOSE i \in S : \A j \in S : j <= i

find(s, p) == IF Matches(s, p) = {} THEN None ELSE Some(FirstIndex(Matches(s, p)))

rfind(s, p) == IF Matches(s, p) = {} THEN None ELSE Some(LastIndex(Matches(s, p)))

contains(s, p) == Matches(s, p) # {}

starts_with(s, p) == IsPrefixAt(s, p, 0)

ends_with(s, p) == Len(p) <= Len(s) /\ IsPrefixAt(s, p, Len(s) - Len(p))

\* s[a..b] and s[a..]
Slice(s, a, b) == SubSeq(s, a + 1, b)
SliceFrom(s, a) == SubSeq(s, a + 1, Len(s))

strip_prefix(s, p) == IF starts_with(s, p) THEN Some(SliceFrom(s, Len(p))) ELSE None

strip_suffix(s, p) == IF ends_with(s, p) THEN Some(Slice(s, 0, Len(s) - Len(p))) ELSE None

\* str::replace: the non-overlapping matches, left to right.
RECURSIVE replace(_, _, _)
replace(s, from, to) ==
    IF find(s, from) = None THEN s
    ELSE Slice(s, 0, Unwrap(find(s, from))) \o to
         \o replace(SliceFrom(s, Unwrap(find(s, from)) + Len(from)), from, to)

RECURSIVE trim_start(_)
trim_start(s) == IF s # <<>> /\ Head(s) = " " THEN trim_start(Tail(s)) ELSE s

RECURSIVE trim_end(_)
trim_end(s) ==
    IF s # <<>> /\ s[Len(s)] = " " THEN trim_end(SubSeq(s, 1, Len(s) - 1)) ELSE s

trim(s) == trim_end(trim_start(s))

is_uppercase(c) ==
    c \in {"A", "B", "C", "D", "E", "F", "G", "H", "I", "J", "K", "L", "M",
           "N", "O", "P", "Q", "R", "S", "T", "U", "V", "W", "X", "Y", "Z"}

\* s.split(|c| c.is_uppercase()): the pieces between the upper-case letters.
RECURSIVE SplitUpper(_, _)
SplitUpper(s, piece) ==
    IF s = <<>> THEN <<piece>>
    ELSE IF is_uppercase(Head(s)) THEN <<piece>> \o SplitUpper(Tail(s), <<>>)
    ELSE SplitUpper(Tail(s), Append(piece, Head(s)))

IsSignificant(word) == word # <<>> /\ Len(word) > 2

\* .split(|c| c.is_uppercase()).filter(|s| !s.is_empty() && s.len() > 2)
significant_words(s) == SelectSeq(SplitUpper(s, <<>>), IsSignificant)

to_ascii_lowercase(c) ==
    LET upper == <<"A", "B", "C", "D", "E", "F", "G", "H", "I", "J", "K", "L", "M", "N", "O",
            "P", "Q", "R", "S", "T", "U", "V", "W", "X", "Y", "Z">>
        lower == <<"a", "b", "c", "d", "e", "f", "g", "h", "i", "j", "k", "l", "m", "n", "o",
                "p", "q", "r", "s", "t", "u", "v", "w", "x", "y", "z">>
    IN  IF is_uppercase(c) THEN lower[CHOOSE i \in 1..26 : upper[i] = c] ELSE c

eq_ignore_ascii_case(a, b) ==
    /\ Len(a) = Len(b)
    /\ \A i \in 1..Len(a) : to_ascii_lowercase(a[i]) = to_ascii_lowercase(b[i])

\* cgp_patterns::strip_module_prefixes
strip_module_prefixes(message) ==
    replace(replace(message, <<"c", "g", "p", ":", ":", "p", "r", "e", "l", "u", "d", "e", ":",
            ":">>, <<>>), <<"c", "g", "p", ":", ":">>, <<>>)

\* cgp_patterns::derive_provider_trait_name
derive_provider_trait_name(component_name) ==
    LET stripped == strip_suffix(component_name, <<"C", "o", "m", "p", "o", "n", "e", "n", "t">>)
    IN  IF IsSome(stripped) /\ Unwrap(stripped) # <<>> THEN stripped
        ELSE IF contains(component_name, <<"C", "o", "m", "p", "o", "n", "e", "n", "t">>)
                /\ Slice(component_name, 0, Unwrap(rfind(component_name, <<"C", "o", "m", "p",
                        "o", "n", "e", "n", "t">>))) # <<>>
        THEN Some(Slice(component_name, 0, Unwrap(rfind(component_name, <<"C", "o", "m", "p",
                "o", "n", "e", "n", "t">>))))
        ELSE None

(***************************************************************************)
(* root_cause.rs: the relationship deduplicator.                           *)
(***************************************************************************)

MaxRels == 2

\* root_cause::is_contained_type_parameter
is_contained_type_parameter(inner_type, outer_type) ==
    \E pattern \in { <<"<">> \o inner_type \o <<">">>,
                     <<"<">> \o inner_type \o <<",">>,
                     <<",", " ">> \o inner_type \o <<">">>,
                     <<",", " ">> \o inner_type \o <<",">>,
                     <<"<", " ">> \o inner_type,
                     inner_type \o <<" ", ">">> } :
        contains(outer_type, pattern)

\* The closure without the test on component and context.
is_redundant_any_pair(rel, relationships) ==
    \E i \in 1..Len(relationships) :
        LET other == relationships[i]
        IN  /\ rel # other
            /\ is_contained_type_parameter(rel.provider_type, other.provider_type)

\* The closure deduplicate_provider_relationships passes to any().
is_redundant(rel, relationships) ==
    \E i \in 1..Len(relationships) :
        LET other == relationships[i]
        IN  /\ rel # other
            /\ ~(other.component # rel.component \/ other.context # rel.context)
            /\ is_contained_type_parameter(rel.provider_type, other.provider_type)

RECURSIVE KeepNotRedundant(_, _)
KeepNotRedundant(rest, relationships) ==
    IF rest = <<>> THEN <<>>
    ELSE (IF is_redundant(Head(rest), relationships) THEN <<>> ELSE <<Head(rest)>>)
         \o KeepNotRedundant(Tail(rest), relationships)

\* root_cause::deduplicate_provider_relationships
deduplicate_provider_relationships(relationships) ==
    KeepNotRedundant(relationships, relationships)

str_AreaCalculatorComponent == <<"A", "r", "e", "a", "C", "a", "l", "c", "u", "l", "a", "t", "o",
        "r", "C", "o", "m", "p", "o", "n", "e", "n", "t">>
str_DensityCalculatorComponent == <<"D", "e", "n", "s", "i", "t", "y", "C", "a", "l", "c", "u",
        "l", "a", "t", "o", "r", "C", "o", "m", "p", "o", "n", "e", "n", "t">>
str_Rectangle == <<"R", "e", "c", "t", "a", "n", "g", "l", "e">>
str_RectangleArea == <<"R", "e", "c", "t", "a", "n", "g", "l", "e", "A", "r", "e", "a">>
str_ScaledArea_RectangleArea == <<"S", "c", "a", "l", "e", "d", "A", "r", "e", "a", "<", "R",
        "e", "c", "t", "a", "n", "g", "l", "e", "A", "r", "e", "a", ">">>

\* The two relationships of test_deduplicate_provider_relationships.
RelInner ==
    ProviderRelationship(str_RectangleArea, str_AreaCalculatorComponent, str_Rectangle)
RelOuter ==
    ProviderRelationship(str_ScaledArea_RectangleArea, str_AreaCalculatorComponent, str_Rectangle)

\* The relationships the model feeds to the deduplicator.
Relationships ==
    { RelInner, RelOuter,
      ProviderRelationship(str_ScaledArea_RectangleArea, str_AreaCalculatorComponent, <<"S", "q",
              "u", "a", "r", "e">>),
      ProviderRelationship(str_ScaledArea_RectangleArea, str_DensityCalculatorComponent,
                           str_Rectangle),
      ProviderRelationship(<<"P", "a", "i", "r", "<", "R", "e", "c", "t", "a", "n", "g", "l",
              "e", "A", "r", "e", "a", ",", " ", "C", "i", "r", "c", "l", "e", "A", "r", "e",
                      "a", ">">>, str_AreaCalculatorComponent,
                           str_Rectangle),
      ProviderRelationship(<<"T", "r", "i", "p", "l", "e", "<", "C", "i", "r", "c", "l", "e",
              "A", "r", "e", "a", ",", " ", "R", "e", "c", "t", "a", "n", "g", "l", "e", "A",
                      "r", "e", "a", ",", " ", "S", "q", "u", "a", "r", "e", "A", "r", "e", "a",
                              ">">>,
                           str_AreaCalculatorComponent, str_Rectangle),
      ProviderRelationship(<<"C", "i", "r", "c", "l", "e", "A", "r", "e", "a">>,
              str_AreaCalculatorComponent, str_Rectangle),
      ProviderRelationship(<<"S", "q", "u", "a", "r", "e", "A", "r", "e", "a">>,
              str_AreaCalculatorComponent, str_Rectangle),
      ProviderRelationship(<<"A", "r", "e", "a">>, str_AreaCalculatorComponent, str_Rectangle),
      ProviderRelationship(<<"S", "c", "a", "l", "e", "d", "A", "r", "e", "a", "<", "R", "e",
              "c", "t", "a", "n", "g", "l", "e", "A", "r", "e", "a", " ", ">">>,
                      str_AreaCalculatorComponent,
                           str_Rectangle),
      ProviderRelationship(<<"S", "c", "a", "l", "e", "d", "A", "r", "e", "a", "<", " ", "R",
              "e", "c", "t", "a", "n", "g", "l", "e", "A", "r", "e", "a", " ", ">">>,
                      str_AreaCalculatorComponent,
                           str_Rectangle) }

SeqsUpTo(S, n) == UNION { [1..k -> S] : k \in 0..n }

InitRel ==
    /\ db = EmptyMap /\ added = <<>> /\ lastOp = <<"new">>
    /\ RunIdle
    /\ fn = "none"
    /\ arg \in SeqsUpTo(Relationships, MaxRels)
    /\ res = None

DeduplicateRelationships ==
    /\ fn = "none"
    /\ fn' = "deduplicate_provider_relationships"
    /\ res' = Some(deduplicate_provider_relationships(arg))
    /\ UNCHANGED <<arg, dbVars, runVars>>

NextRel == DeduplicateRelationships

SpecRel == InitRel /\ [][NextRel]_vars

\* The characters of s before offset i and from offset i on, spaces skipped.
Before(s, i) == trim_end(Slice(s, 0, i))
After(s, i) == trim_start(SliceFrom(s, i))

\* X stands in outer as a type parameter: between `<` or `,` and `>` or `,`,
\* spaces around it allowed.
IsBracketedParameter(X, outer) ==
    \E i \in Matches(outer, X) :
        /\ Before(outer, i) # <<>>
        /\ Before(outer, i)[Len(Before(outer, i))] \in {"<", ","}
        /\ After(outer, i + Len(X)) # <<>>
        /\ Head(After(outer, i + Len(X))) \in {">", ","}

\* C10 as claimed: deduplicate_provider_relationships drops a relationship
\* exactly when another relationship of the input has the same component and
\* context and a provider type containing the first one's provider type as a
\* bracketed type parameter; of RectangleArea and ScaledArea<RectangleArea>
\* for one component and context only the second is kept.
C10_DroppedIffBracketedParameter ==
    fn = "deduplicate_provider_relationships" =>
        /\ \A i \in 1..Len(arg) :
            ~InSeq(arg[i], Unwrap(res)) <=>
                \E j \in 1..Len(arg) :
                    /\ arg[j] # arg[i]
                    /\ arg[j].component = arg[i].component
                    /\ arg[j].context = arg[i].context
                    /\ IsBracketedParameter(arg[i].provider_type, arg[j].provider_type)
        /\ arg = <<RelInner, RelOuter>> => Unwrap(res) = <<RelOuter>>

\* The case of the test: the inner provider is dropped, the outer one kept.
C10_Witness ==
    /\ fn = "deduplicate_provider_relationships"
    /\ arg = <<RelInner, RelOuter>>
    /\ Unwrap(res) = <<RelOuter>>

(***************************************************************************)
(* error_formatting.rs: the dependency tree.                               *)
(***************************************************************************)

DependencyNode(description, trait_type, is_satisfied, is_reference, children) ==
    [description |-> description, trait_type |-> trait_type, is_satisfied |-> is_satisfied,
     is_reference |-> is_reference, children |-> children]

NestedConsumerTrait(trait_name, context_type) ==
    [trait_name |-> trait_name, context_type |-> context_type]

UnsatisfiedProvider(provider_type, trait_name, context_type) ==
    [provider_type |-> provider_type, trait_name |-> trait_name, context_type |-> context_type]

is_ascii_alphanumeric(c) ==
    \E i \in 1..62 :
        <<"A", "B", "C", "D", "E", "F", "G", "H", "I", "J", "K", "L", "M", "N", "O", "P", "Q",
                "R", "S", "T", "U", "V", "W", "X", "Y", "Z", "a", "b", "c", "d", "e", "f", "g",
                        "h", "i", "j", "k", "l", "m", "n", "o", "p", "q", "r", "s", "t", "u",
                                "v", "w", "x", "y", "z", "0", "1", "2", "3", "4", "5", "6", "7",
                                        "8", "9">>[i] = c

\* The character U+FFFD.
ReplacementChar == "U+FFFD"

has_non_basic_identifier_chars(field_name) ==
    \E i \in 1..Len(field_name) :
        ~is_ascii_alphanumeric(field_name[i])
            /\ field_name[i] \notin {"_", "-", ReplacementChar}

\* str::escape_default on printable ASCII: the quotes and the backslash get a
\* backslash, the rest stay.
RECURSIVE escape_default(_)
escape_default(s) ==
    IF s = <<>> THEN <<>>
    ELSE (IF Head(s) \in {"\"", "\\", "'"} THEN <<"\\", Head(s)>> ELSE <<Head(s)>>)
         \o escape_default(Tail(s))

format_field_name(field_name) ==
    IF has_non_basic_identifier_chars(field_name)
    THEN <<"\"">> \o escape_default(field_name) \o <<"\"">>
    ELSE field_name

derive_component_from_consumer_trait(consumer_trait) ==
    IF IsSome(strip_prefix(consumer_trait, <<"C", "a", "n">>))
    THEN Some(Unwrap(strip_prefix(consumer_trait, <<"C", "a", "n">>)) \o <<"C", "o", "m", "p",
            "o", "n", "e", "n", "t">>)
    ELSE None

SharesSignificantWord(a, b) ==
    \E i \in 1..Len(significant_words(a)) : \E j \in 1..Len(significant_words(b)) :
        eq_ignore_ascii_case(significant_words(a)[i], significant_words(b)[j])

find_consumer_trait_for_component(component_name, entry) ==
    LET deps == entry.consumer_trait_dependencies
        exact == { i \in 1..Len(deps) : deps[i].component_name = Some(component_name) }
        has_provider ==
            \E i \in 1..Len(entry.provider_relationships) :
                strip_module_prefixes(entry.provider_relationships[i].component) = component_name
        provider_trait == derive_provider_trait_name(component_name)
        consumer_part(dep) ==
            IF IsSome(strip_prefix(dep.trait_name, <<"C", "a", "n">>))
            THEN Unwrap(strip_prefix(dep.trait_name, <<"C", "a", "n">>)) ELSE dep.trait_name
        fuzzy == { i \in 1..Len(deps) :
                     SharesSignificantWord(Unwrap(provider_trait), consumer_part(deps[i])) }
    IN  IF exact # {} THEN Some(deps[FirstIndex(exact)].trait_name)
        ELSE IF ~has_provider THEN None
        ELSE IF ~IsSome(provider_trait) THEN None
        ELSE IF fuzzy # {} THEN Some(deps[FirstIndex(fuzzy)].trait_name)
        ELSE None

\* match_component_to_provider with one pass over the relationships: the
\* first one that matches in either way.
match_component_to_provider_single_pass(component_info, provider_relationships) ==
    LET component_name == strip_module_prefixes(component_info.component_type)
        either == { i \in 1..Len(provider_relationships) :
                      \/ strip_module_prefixes(provider_relationships[i].component)
                            = component_name
                      \/ /\ IsSome(component_info.provider_trait)
                         /\ derive_provider_trait_name(provider_relationships[i].component)
                               = component_info.provider_trait }
    IN  IF either # {} THEN Some(provider_relationships[FirstIndex(either)]) ELSE None

match_component_to_provider(component_info, provider_relationships) ==
    LET component_name == strip_module_prefixes(component_info.component_type)
        exact == { i \in 1..Len(provider_relationships) :
                     strip_module_prefixes(provider_relationships[i].component) = component_name }
        by_trait == { i \in 1..Len(provider_relationships) :
                        derive_provider_trait_name(provider_relationships[i].component)
                            = component_info.provider_trait }
    IN  IF exact # {} THEN Some(provider_relationships[FirstIndex(exact)])
        ELSE IF IsSome(component_info.provider_trait) /\ by_trait # {}
        THEN Some(provider_relationships[FirstIndex(by_trait)])
        ELSE None

str_to_implement == <<"t", "o", " ", "i", "m", "p", "l", "e", "m", "e", "n", "t", " ", Tick>>
str_required_for == <<"r", "e", "q", "u", "i", "r", "e", "d", " ", "f", "o", "r", " ", Tick>>

extract_trait_from_note(note) ==
    LET start == find(note, str_to_implement)
        after_start == Unwrap(start) + Len(str_to_implement)
        end == find(SliceFrom(note, after_start), <<Tick>>)
        cleaned == strip_module_prefixes(Slice(note, after_start, after_start + Unwrap(end)))
        after_bracket == Unwrap(find(cleaned, <<"<">>)) + 1
        comma_pos == find(SliceFrom(cleaned, after_bracket), <<",">>)
    IN  IF ~IsSome(start) THEN None
        ELSE IF ~IsSome(end) THEN None
        ELSE IF starts_with(cleaned, <<"I", "s", "P", "r", "o", "v", "i", "d", "e", "r", "F",
                "o", "r", "<">>)
        THEN IF IsSome(comma_pos)
             THEN Some(trim(Slice(cleaned, after_bracket, after_bracket + Unwrap(comma_pos))))
             ELSE None
        ELSE Some(cleaned)

extract_getter_trait_from_note(note) ==
    IF IsSome(extract_trait_from_note(note))
       /\ starts_with(Unwrap(extract_trait_from_note(note)), <<"H", "a", "s">>)
    THEN extract_trait_from_note(note)
    ELSE None

ContextOfNote(note) ==
    LET start == find(note, <<"f", "o", "r", " ", Tick>>)
        after_start == Unwrap(start) + 5
        end == find(SliceFrom(note, after_start), <<Tick, " ", "t", "o">>)
    IN  IF IsSome(start) /\ IsSome(end)
        THEN Some(strip_module_prefixes(Slice(note, after_start, after_start + Unwrap(end))))
        ELSE None

extract_context_from_notes(notes) ==
    LET hits == { i \in 1..Len(notes) : IsSome(ContextOfNote(notes[i])) }
    IN  IF hits = {} THEN None ELSE ContextOfNote(notes[FirstIndex(hits)])

\* The body of the loop of extract_nested_consumer_traits for one note.
NestedConsumerOfNote(note) ==
    LET for_pos == find(note, str_required_for)
        after_for == Unwrap(for_pos) + Len(str_required_for)
        context_end == find(SliceFrom(note, after_for), <<Tick>>)
        context_type == Slice(note, after_for, after_for + Unwrap(context_end))
        implement_pos == find(SliceFrom(note, after_for + Unwrap(context_end)), str_to_implement)
        trait_start ==
            after_for + Unwrap(context_end) + Unwrap(implement_pos) + Len(str_to_implement)
        trait_end == find(SliceFrom(note, trait_start), <<Tick>>)
        cleaned_trait ==
            strip_module_prefixes(Slice(note, trait_start, trait_start + Unwrap(trait_end)))
    IN  IF ~IsSome(for_pos) THEN None
        ELSE IF ~IsSome(context_end) THEN None
        ELSE IF ~IsSome(implement_pos) THEN None
        ELSE IF ~IsSome(trait_end) THEN None
        ELSE IF /\ starts_with(cleaned_trait, <<"C", "a", "n">>)
                /\ ~contains(cleaned_trait, <<"C", "a", "n", "U", "s", "e", "C", "o", "m", "p",
                        "o", "n", "e", "n", "t">>)
                /\ ~starts_with(cleaned_trait, <<"I", "s", "P", "r", "o", "v", "i", "d", "e",
                        "r", "F", "o", "r">>)
        THEN Some(NestedConsumerTrait(cleaned_trait, strip_module_prefixes(context_type)))
        ELSE None

RECURSIVE extract_nested_consumer_traits(_)
extract_nested_consumer_traits(notes) ==
    IF notes = <<>> THEN <<>>
    ELSE NestedConsumerOfNote(Head(notes)) \o extract_nested_consumer_traits(Tail(notes))

extract_unsatisfied_provider_from_message(message) ==
    LET bound_start == find(message, <<"t", "h", "e", " ", "t", "r", "a", "i", "t", " ", "b",
            "o", "u", "n", "d", " ", Tick>>)
        after_bound == Unwrap(bound_start) + 17
        bound_end == find(SliceFrom(message, after_bound), <<Tick, " ", "i", "s", " ", "n", "o",
                "t", " ", "s", "a", "t", "i", "s", "f", "i", "e", "d">>)
        bound_str == Slice(message, after_bound, after_bound + Unwrap(bound_end))
        colon_pos == find(bound_str, <<":", " ">>)
        provider_type == trim(Slice(bound_str, 0, Unwrap(colon_pos)))
        trait_and_context == trim(SliceFrom(bound_str, Unwrap(colon_pos) + 2))
        open_bracket == find(trait_and_context, <<"<">>)
        trait_name == trim(Slice(trait_and_context, 0, Unwrap(open_bracket)))
        close_bracket == find(trait_and_context, <<">">>)
        context_type ==
            trim(Slice(trait_and_context, Unwrap(open_bracket) + 1, Unwrap(close_bracket)))
    IN  IF ~IsSome(bound_start) THEN None
        ELSE IF ~IsSome(bound_end) THEN None
        ELSE IF ~IsSome(colon_pos) THEN None
        ELSE IF ~IsSome(open_bracket) THEN None
        ELSE IF ~IsSome(close_bracket) THEN None
        ELSE Some(UnsatisfiedProvider(strip_module_prefixes(provider_type),
                                      strip_module_prefixes(trait_name),
                                      strip_module_prefixes(context_type)))

RECURSIVE PushInner(_, _, _)
PushInner(inner_providers, rest, relationships) ==
    IF rest = <<>> THEN inner_providers
    ELSE LET rel == Head(rest)
             is_inner ==
                 \E i \in 1..Len(relationships) :
                     /\ rel.provider_type # relationships[i].provider_type
                     /\ is_contained_type_parameter(rel.provider_type,
                                                    relationships[i].provider_type)
         IN  PushInner(IF is_inner /\ ~InSeq(rel.provider_type, inner_providers)
                       THEN Append(inner_providers, rel.provider_type)
                       ELSE inner_providers,
                       Tail(rest), relationships)

detect_inner_providers(relationships) == PushInner(<<>>, relationships, relationships)

\* "`a` for `b`"
FormatFor(a, b) == <<Tick>> \o a \o <<Tick>> \o <<" ", "f", "o", "r",
        " ">> \o <<Tick>> \o b \o <<Tick>>

\* "`trait<context>` for <kind> `provider`"
FormatProvider(provider_trait, context_type, kind, provider_type) ==
    strip_module_prefixes(
        <<Tick>> \o provider_trait \o <<"<">> \o context_type \o <<">">> \o <<Tick>>
        \o <<" ", "f", "o", "r", " ">> \o kind \o <<" ">> \o <<Tick>> \o provider_type \o <<Tick>>)

str_consumer_trait == <<"c", "o", "n", "s", "u", "m", "e", "r", " ", "t", "r", "a", "i", "t">>
str_provider_trait == <<"p", "r", "o", "v", "i", "d", "e", "r", " ", "t", "r", "a", "i", "t">>
str_getter_trait == <<"g", "e", "t", "t", "e", "r", " ", "t", "r", "a", "i", "t">>
str_check_trait == <<"c", "h", "e", "c", "k", " ", "t", "r", "a", "i", "t">>

\* The getter trait names of the notes, in order.
RECURSIVE GetterTraits(_)
GetterTraits(notes) ==
    IF notes = <<>> THEN <<>>
    ELSE extract_getter_trait_from_note(Head(notes)) \o GetterTraits(Tail(notes))

FieldNode(field_info) ==
    DependencyNode(<<"f", "i", "e", "l", "d", " ",
            Tick>> \o format_field_name(field_info.field_name) \o <<Tick, " ", "o", "n", " ", Tick>>
                       \o field_info.target_type \o <<Tick>>,
                   None, Some(FALSE), FALSE, <<>>)

\* build_getter_nodes marking the field as satisfied.
build_getter_nodes_field_satisfied(entry, context_type) ==
    [i \in 1..Len(GetterTraits(entry.delegation_notes)) |->
        DependencyNode(FormatFor(GetterTraits(entry.delegation_notes)[i], context_type),
                       Some(str_getter_trait), None, FALSE,
                       IF i = 1 /\ IsSome(entry.field_info)
                       THEN <<[FieldNode(Unwrap(entry.field_info))
                                  EXCEPT !.is_satisfied = Some(TRUE)]>>
                       ELSE <<>>)]

build_getter_nodes(entry, context_type) ==
    [i \in 1..Len(GetterTraits(entry.delegation_notes)) |->
        DependencyNode(FormatFor(GetterTraits(entry.delegation_notes)[i], context_type),
                       Some(str_getter_trait), None, FALSE,
                       IF i = 1 /\ IsSome(entry.field_info)
                       THEN <<FieldNode(Unwrap(entry.field_info))>>
                       ELSE <<>>)]

\* The closure of find() in build_nested_consumer_provider_nodes.
MatchesNestedConsumer(comp, nested_consumer) ==
    /\ IsSome(comp.provider_trait)
    /\ IsSome(strip_prefix(nested_consumer.trait_name, <<"C", "a", "n">>))
    /\ SharesSignificantWord(Unwrap(strip_prefix(nested_consumer.trait_name, <<"C", "a", "n">>)),
                             Unwrap(comp.provider_trait))

build_nested_consumer_provider_nodes(entry, nested_consumer, rendered_consumer_traits) ==
    LET is_reference == InSeq(nested_consumer.trait_name, rendered_consumer_traits)
        matching == { i \in 1..Len(entry.component_infos) :
                        MatchesNestedConsumer(entry.component_infos[i], nested_consumer) }
        component_info == entry.component_infos[FirstIndex(matching)]
        provider_rel == match_component_to_provider(component_info, entry.provider_relationships)
        unsatisfied == extract_unsatisfied_provider_from_message(entry.message)
        consumer_node(children) ==
            DependencyNode(FormatFor(nested_consumer.trait_name, nested_consumer.context_type),
                           Some(str_consumer_trait), None, is_reference, children)
    IN  IF is_reference THEN <<consumer_node(<<>>)>>
        ELSE IF matching # {}
        THEN IF IsSome(provider_rel) /\ IsSome(component_info.provider_trait)
             THEN <<consumer_node(
                     <<DependencyNode(
                         FormatProvider(Unwrap(component_info.provider_trait),
                                        nested_consumer.context_type, <<"p", "r", "o", "v", "i",
                                                "d", "e", "r">>,
                                        Unwrap(provider_rel).provider_type),
                         Some(str_provider_trait), None, FALSE,
                         build_getter_nodes(entry, nested_consumer.context_type))>>)>>
             ELSE <<consumer_node(<<>>)>>
        ELSE IF IsSome(unsatisfied)
        THEN <<consumer_node(
                <<DependencyNode(
                    FormatProvider(Unwrap(unsatisfied).trait_name,
                                   Unwrap(unsatisfied).context_type, <<"p", "r", "o", "v", "i",
                                           "d", "e", "r">>,
                                   Unwrap(unsatisfied).provider_type),
                    Some(str_provider_trait), Some(FALSE), FALSE, <<>>)>>)>>
        ELSE <<consumer_node(<<>>)>>

build_provider_nodes_for_component(entry, context_type, component_info, provider_rel, rendered_consumer_traits, current_consumer_trait) ==
    LET all_inner_providers == detect_inner_providers(entry.provider_relationships)
        deduped_relationships ==
            deduplicate_provider_relationships(entry.provider_relationships)
        rel_to_use ==
            IF IsSome(provider_rel) THEN provider_rel
            ELSE IF deduped_relationships # <<>> THEN Some(deduped_relationships[1])
            ELSE None
        provider_trait ==
            IF IsSome(component_info) THEN Unwrap(component_info).provider_trait ELSE None
        rel == Unwrap(rel_to_use)
        is_higher_order ==
            \E i \in 1..Len(all_inner_providers) :
                is_contained_type_parameter(all_inner_providers[i], rel.provider_type)
        NotCurrent(nested) ==
            IsSome(current_consumer_trait) => nested.trait_name # Unwrap(current_consumer_trait)
        all_nested_consumers ==
            SelectSeq(extract_nested_consumer_traits(entry.delegation_notes), NotCurrent)
        getter_children ==
            IF all_nested_consumers = <<>> THEN build_getter_nodes(entry, context_type) ELSE <<>>
        \* each call returns one node
        nested_nodes ==
            [i \in 1..Len(all_nested_consumers) |->
                build_nested_consumer_provider_nodes(entry, all_nested_consumers[i],
                                                     rendered_consumer_traits)[1]]
        inner_nodes ==
            IF is_higher_order /\ all_inner_providers # <<>>
            THEN <<DependencyNode(
                     FormatProvider(Unwrap(provider_trait), context_type, <<"i", "n", "n", "e",
                             "r", " ", "p", "r", "o", "v", "i", "d", "e", "r">>,
                                    all_inner_providers[1]),
                     Some(str_provider_trait), Some(TRUE), FALSE, <<>>)>>
            ELSE <<>>
    IN  IF IsSome(rel_to_use) /\ IsSome(provider_trait)
        THEN <<DependencyNode(
                 FormatProvider(Unwrap(provider_trait), context_type, <<"p", "r", "o", "v", "i",
                         "d", "e", "r">>,
                                rel.provider_type),
                 Some(str_provider_trait), None, FALSE,
                 getter_children \o nested_nodes \o inner_nodes)>>
        ELSE <<>>

\* The loop of build_dependency_tree over entry.component_infos, from the
\* i-th component on.
RECURSIVE ConsumerNodes(_, _, _, _)
ConsumerNodes(entry, context_type, i, rendered_consumer_traits) ==
    IF i > Len(entry.component_infos) THEN <<>>
    ELSE LET component_info == entry.component_infos[i]
             component_name == strip_module_prefixes(component_info.component_type)
             consumer_trait_name == find_consumer_trait_for_component(component_name, entry)
             consumer_desc ==
                 IF IsSome(consumer_trait_name)
                 THEN FormatFor(Unwrap(consumer_trait_name), context_type)
                 ELSE <<"c", "o", "n", "s", "u", "m", "e", "r", " ", "t", "r", "a", "i", "t",
                         " ", "o", "f", " ", Tick>> \o component_name \o <<Tick, " ", "f", "o",
                                 "r", " ", Tick>>
                      \o context_type \o <<Tick>>
             provider_nodes ==
                 build_provider_nodes_for_component(
                     entry, context_type, Some(component_info),
                     match_component_to_provider(component_info, entry.provider_relationships),
                     rendered_consumer_traits, consumer_trait_name)
         IN  <<DependencyNode(consumer_desc, Some(str_consumer_trait), None, FALSE,
                              provider_nodes)>>
             \o ConsumerNodes(entry, context_type, i + 1,
                              rendered_consumer_traits \o consumer_trait_name)

build_dependency_tree(entry) ==
    LET context_type ==
            IF IsSome(entry.field_info) THEN Some(Unwrap(entry.field_info).target_type)
            ELSE extract_context_from_notes(entry.delegation_notes)
        children ==
            ConsumerNodes(entry, Unwrap(context_type), 1, <<>>)
            \o (IF entry.component_infos = <<>> /\ entry.provider_relationships # <<>>
                THEN build_provider_nodes_for_component(entry, Unwrap(context_type), None, None,
                                                        <<>>, None)
                ELSE <<>>)
    IN  IF ~IsSome(entry.check_trait) THEN None
        ELSE IF ~IsSome(context_type) THEN None
        ELSE Some(DependencyNode(FormatFor(Unwrap(entry.check_trait), Unwrap(context_type)),
                                 Some(str_check_trait), None, FALSE, children))

\* The box-drawing characters and the two marks.
Corner == "corner"
Tee == "tee"
Bar == "bar"
CheckMark == "check"
CrossMark == "cross"

str_reference_marker == <<" ", "(", "*", ")">>

RECURSIVE render_dependency_tree(_, _, _, _)
RECURSIVE RenderChildren(_, _, _)
RenderChildren(children, child_prefix, i) ==
    IF i > Len(children) THEN <<>>
    ELSE render_dependency_tree(children[i], child_prefix, i = Len(children), FALSE)
         \o RenderChildren(children, child_prefix, i + 1)

render_dependency_tree(node, prefix, is_last, is_root) ==
    LET annotated ==
            node.description
            \o (IF IsSome(node.trait_type)
                THEN <<" ", "(">> \o Unwrap(node.trait_type) \o <<")">> ELSE <<>>)
        line ==
            IF is_root THEN annotated
            ELSE prefix \o <<IF is_last THEN Corner ELSE Tee, " ">> \o annotated
                 \o (IF IsSome(node.is_satisfied)
                     THEN <<" ", IF Unwrap(node.is_satisfied) THEN CheckMark ELSE CrossMark>>
                     ELSE <<>>)
                 \o (IF node.is_reference THEN str_reference_marker ELSE <<>>)
        child_prefix ==
            IF is_root THEN prefix
            ELSE IF is_last THEN prefix \o <<" ", " ", " ">>
            ELSE prefix \o <<Bar, " ", " ">>
    IN  IF node.is_reference THEN <<line>>
        ELSE <<line>> \o RenderChildren(node.children, child_prefix, 1)

(***************************************************************************)
(* The tree builder on the entries of a bounded catalogue.                 *)
(***************************************************************************)

MaxComponents == 2

ConsumerTraitDependency(trait_name) ==
    [trait_name |-> trait_name,
     component_name |-> derive_component_from_consumer_trait(trait_name)]

\* The ComponentInfo extract_component_from_can_use builds for a component.
ComponentOf(component_type) ==
    ComponentInfo(component_type, derive_provider_trait_name(component_type))

TreeEntry(check_trait, field_info, component_infos, deps, rels, notes, message) ==
    [check_trait |-> check_trait, field_info |-> field_info,
     component_infos |-> component_infos, consumer_trait_dependencies |-> deps,
     provider_relationships |-> rels, delegation_notes |-> notes, message |-> message]

str_CanCalculateArea == <<"C", "a", "n", "C", "a", "l", "c", "u", "l", "a", "t", "e", "A", "r",
        "e", "a">>
str_CanCalculateDensity == <<"C", "a", "n", "C", "a", "l", "c", "u", "l", "a", "t", "e", "D",
        "e", "n", "s", "i", "t", "y">>

CompAreaCalculator == ComponentOf(str_AreaCalculatorComponent)
CompDensityCalculator == ComponentOf(str_DensityCalculatorComponent)
\* A component named without the Component suffix: no provider trait name.
CompFoo == ComponentOf(<<"c", "g", "p", ":", ":", "p", "r", "e", "l", "u", "d", "e", ":", ":",
        "F", "o", "o">>)

RelDensityFromMassField ==
    ProviderRelationship(<<"D", "e", "n", "s", "i", "t", "y", "F", "r", "o", "m", "M", "a", "s",
            "s", "F", "i", "e", "l", "d">>, str_DensityCalculatorComponent, str_Rectangle)
RelFoo == ProviderRelationship(<<"F", "o", "o", "I", "m", "p", "l">>, <<"F", "o", "o">>,
        str_Rectangle)

note_getter == <<"r", "e", "q", "u", "i", "r", "e", "d", " ", "f", "o", "r", " ", Tick, "R", "e",
        "c", "t", "a", "n", "g", "l", "e", Tick, " ", "t", "o", " ", "i", "m", "p", "l", "e",
                "m", "e", "n", "t", " ", Tick, "H", "a", "s", "R", "e", "c", "t", "a", "n", "g",
                        "l", "e", "F", "i", "e", "l", "d", "s", Tick>>
note_getter_name == <<"r", "e", "q", "u", "i", "r", "e", "d", " ", "f", "o", "r", " ", Tick, "R",
        "e", "c", "t", "a", "n", "g", "l", "e", Tick, " ", "t", "o", " ", "i", "m", "p", "l",
                "e", "m", "e", "n", "t", " ", Tick, "H", "a", "s", "N", "a", "m", "e", Tick>>
note_nested_area == <<"r", "e", "q", "u", "i", "r", "e", "d", " ", "f", "o", "r", " ", Tick, "R",
        "e", "c", "t", "a", "n", "g", "l", "e", Tick, " ", "t", "o", " ", "i", "m", "p", "l",
                "e", "m", "e", "n", "t", " ", Tick, "C", "a", "n", "C", "a", "l", "c", "u", "l",
                        "a", "t", "e", "A", "r", "e", "a", Tick>>
note_nested_area_square == <<"r", "e", "q", "u", "i", "r", "e", "d", " ", "f", "o", "r", " ",
        Tick, "S", "q", "u", "a", "r", "e", Tick, " ", "t", "o", " ", "i", "m", "p", "l", "e",
                "m", "e", "n", "t", " ", Tick, "C", "a", "n", "C", "a", "l", "c", "u", "l", "a",
                        "t", "e", "A", "r", "e", "a", Tick>>
note_nested_perimeter == <<"r", "e", "q", "u", "i", "r", "e", "d", " ", "f", "o", "r", " ", Tick,
        "R", "e", "c", "t", "a", "n", "g", "l", "e", Tick, " ", "t", "o", " ", "i", "m", "p",
                "l", "e", "m", "e", "n", "t", " ", Tick, "C", "a", "n", "C", "a", "l", "c", "u",
                        "l", "a", "t", "e", "P", "e", "r", "i", "m", "e", "t", "e", "r", Tick>>
note_provider_area ==
    <<"r", "e", "q", "u", "i", "r", "e", "d", " ", "f", "o", "r", " ", Tick, "R", "e", "c", "t",
            "a", "n", "g", "l", "e", "A", "r", "e", "a", Tick, " ", "t", "o", " ", "i", "m", "p",
                    "l", "e", "m", "e", "n", "t", " ", Tick, "c", "g", "p", ":", ":", "p", "r",
                            "e", "l", "u", "d", "e", ":", ":", "I", "s", "P", "r", "o", "v", "i",
                                    "d", "e", "r", "F", "o", "r", "<", "A", "r", "e", "a", "C",
                                            "a", "l", "c", "u", "l", "a", "t", "o", "r", "C",
                                                    "o", "m", "p", "o", "n", "e", "n", "t", ",",
                                                            " ", "R", "e", "c", "t", "a", "n",
                                                                    "g", "l", "e", ">", Tick>>
note_provider_density ==
    <<"r", "e", "q", "u", "i", "r", "e", "d", " ", "f", "o", "r", " ", Tick, "D", "e", "n", "s",
            "i", "t", "y", "F", "r", "o", "m", "M", "a", "s", "s", "F", "i", "e", "l", "d", Tick,
                    " ", "t", "o", " ", "i", "m", "p", "l", "e", "m", "e", "n", "t", " ", Tick,
                            "I", "s", "P", "r", "o", "v", "i", "d", "e", "r", "F", "o", "r", "<",
                                    "D", "e", "n", "s", "i", "t", "y", "C", "a", "l", "c", "u",
                                            "l", "a", "t", "o", "r", "C", "o", "m", "p", "o",
                                                    "n", "e", "n", "t", ",", " ", "R", "e", "c",
                                                            "t", "a", "n", "g", "l", "e", ">",
                                                                    Tick>>

TreeComponents == { CompAreaCalculator, CompDensityCalculator, CompFoo }

\* The component lists: up to MaxComponents components, none twice.
ComponentLists ==
    { s \in SeqsUpTo(TreeComponents, MaxComponents) :
        \A i, j \in 1..Len(s) : s[i] = s[j] => i = j }

DependencyLists ==
    { <<>>,
      <<ConsumerTraitDependency(str_CanCalculateArea)>>,
      <<ConsumerTraitDependency(str_CanCalculateArea),
        ConsumerTraitDependency(str_CanCalculateDensity)>> }

RelationshipLists ==
    { <<>>, <<RelInner>>, <<RelFoo>>, <<RelInner, RelDensityFromMassField>>,
      <<RelInner, RelOuter>> }

NoteLists ==
    { <<>>,
      <<note_getter>>,
      <<note_provider_area, note_getter>>,
      <<note_getter, note_getter_name>>,
      <<note_provider_area, note_getter, note_nested_area, note_provider_density>>,
      <<note_getter, note_nested_perimeter>>,
      <<note_nested_area, note_nested_area_square>> }

TreeMessages ==
    { <<"t", "h", "e", " ", "t", "r", "a", "i", "t", " ", "b", "o", "u", "n", "d", " ", Tick,
            "R", "e", "c", "t", "a", "n", "g", "l", "e", ":", " ", "c", "g", "p", ":", ":", "p",
                    "r", "e", "l", "u", "d", "e", ":", ":", "C", "a", "n", "U", "s", "e", "C",
                            "o", "m", "p", "o", "n", "e", "n", "t", "<", "A", "r", "e", "a", "C",
                                    "a", "l", "c", "u", "l", "a", "t", "o", "r", "C", "o", "m",
                                            "p", "o", "n", "e", "n", "t", ">", Tick, " ", "i",
                                                    "s", " ", "n", "o", "t", " ", "s", "a", "t",
                                                            "i", "s", "f", "i", "e", "d">>,
      <<"t", "h", "e", " ", "t", "r", "a", "i", "t", " ", "b", "o", "u", "n", "d", " ", Tick,
              "R", "e", "c", "t", "a", "n", "g", "l", "e", "A", "r", "e", "a", ":", " ", "A",
                      "r", "e", "a", "C", "a", "l", "c", "u", "l", "a", "t", "o", "r", "<", "R",
                              "e", "c", "t", "a", "n", "g", "l", "e", ">", Tick, " ", "i", "s",
                                      " ", "n", "o", "t", " ", "s", "a", "t", "i", "s", "f", "i",
                                              "e", "d">> }

TreeEntries ==
    { TreeEntry(check_trait, field_info, component_infos, deps, rels, notes, message) :
        check_trait \in { None, Some(<<"C", "a", "n", "U", "s", "e", "R", "e", "c", "t", "a",
                "n", "g", "l", "e">>) },
        field_info \in { None, Some(FieldInfo(<<"h", "e", "i", "g", "h", "t">>, TRUE,
                str_Rectangle)) },
        component_infos \in ComponentLists,
        deps \in DependencyLists,
        rels \in RelationshipLists,
        notes \in NoteLists,
        message \in TreeMessages }

InitTree ==
    /\ db = EmptyMap /\ added = <<>> /\ lastOp = <<"new">>
    /\ RunIdle
    /\ fn = "none"
    /\ arg \in TreeEntries
    /\ res = None

BuildDependencyTree ==
    /\ fn = "none"
    /\ fn' = "build_dependency_tree"
    /\ res' = build_dependency_tree(arg)
    /\ UNCHANGED <<arg, dbVars, runVars>>

\* The tree is rendered when there is one.
RenderDependencyTree ==
    /\ fn = "build_dependency_tree"
    /\ IsSome(res)
    /\ fn' = "render_dependency_tree"
    /\ out' = render_dependency_tree(Unwrap(res), <<>>, TRUE, TRUE)
    /\ UNCHANGED <<arg, res, dbVars, pc, mode, consumed, nonCgp>>

NextTree == BuildDependencyTree \/ RenderDependencyTree

SpecTree == InitTree /\ [][NextTree]_vars

(***************************************************************************)
(* Properties of the tree.                                                 *)
(***************************************************************************)

\* The nodes of a tree, the node itself first.
RECURSIVE NodesOf(_)
RECURSIVE NodesOfAll(_)
NodesOfAll(children) ==
    IF children = <<>> THEN <<>> ELSE NodesOf(Head(children)) \o NodesOfAll(Tail(children))

NodesOf(node) == <<node>> \o NodesOfAll(node.children)

IsConsumerNode(node) == node.trait_type = Some(str_consumer_trait)

\* The trait name a consumer node shows: the text between the first two
\* backticks of "`Trait` for `Context`"; none in the fallback description.
ConsumerNameOf(node) ==
    IF starts_with(node.description, <<Tick>>)
    THEN Some(Slice(node.description, 1,
                    1 + Unwrap(find(SliceFrom(node.description, 1), <<Tick>>))))
    ELSE None

Built == fn \in {"build_dependency_tree", "render_dependency_tree"} /\ IsSome(res)

\* C7 as claimed: in a tree build_dependency_tree returns, whatever the entry
\* and the order of its components, each consumer trait name is the name of
\* at most one expanded consumer node; every consumer node marked as a
\* reference has no children.
C7_ExpandedAtMostOnce ==
    Built =>
        LET nodes == NodesOf(Unwrap(res))
            consumers == { i \in 1..Len(nodes) : IsConsumerNode(nodes[i]) }
        IN  /\ \A i, j \in consumers :
                (/\ i < j
                 /\ IsSome(ConsumerNameOf(nodes[i]))
                 /\ ConsumerNameOf(nodes[i]) = ConsumerNameOf(nodes[j]))
                    => nodes[i].is_reference \/ nodes[j].is_reference
            /\ \A i \in consumers : nodes[i].is_reference => nodes[i].children = <<>>

\* A tree where the second occurrence of a consumer trait is a reference.
C7_Witness ==
    /\ Built
    /\ \E i, j \in 1..Len(NodesOf(Unwrap(res))) :
        LET nodes == NodesOf(Unwrap(res))
        IN  /\ i < j
            /\ IsConsumerNode(nodes[i]) /\ IsConsumerNode(nodes[j])
            /\ ConsumerNameOf(nodes[i]) = ConsumerNameOf(nodes[j])
            /\ ~nodes[i].is_reference /\ nodes[j].is_reference

\* The name under which build_dependency_tree shows the consumer trait of
\* the i-th component of the entry.
ConsumerTraitOfComponent(entry, i) ==
    find_consumer_trait_for_component(
        strip_module_prefixes(entry.component_infos[i].component_type), entry)

\* The provider node of the i-th component is built and a delegation note
\* makes it require the consumer trait of the j-th.
ProviderRequires(entry, i, j) ==
    /\ IsSome(entry.component_infos[i].provider_trait)
    /\ IsSome(match_component_to_provider(entry.component_infos[i],
                                          entry.provider_relationships))
    /\ IsSome(ConsumerTraitOfComponent(entry, j))
    /\ ConsumerTraitOfComponent(entry, i) # ConsumerTraitOfComponent(entry, j)
    /\ \E n \in 1..Len(extract_nested_consumer_traits(entry.delegation_notes)) :
        extract_nested_consumer_traits(entry.delegation_notes)[n].trait_name
            = Unwrap(ConsumerTraitOfComponent(entry, j))

\* The children of the given nodes, in order.
RECURSIVE ChildrenOfAll(_)
ChildrenOfAll(nodes) ==
    IF nodes = <<>> THEN <<>> ELSE Head(nodes).children \o ChildrenOfAll(Tail(nodes))

\* The consumer nodes below the root's children that show the given name.
NestedOccurrences(tree, name) ==
    LET nested == NodesOfAll(ChildrenOfAll(tree.children))
    IN  { nested[n] : n \in { m \in 1..Len(nested) :
                                /\ IsConsumerNode(nested[m])
                                /\ ConsumerNameOf(nested[m]) = Some(name) } }

IsReferenceLeaf(node) ==
    /\ node.is_reference
    /\ node.children = <<>>
    /\ Len(render_dependency_tree(node, <<>>, TRUE, FALSE)) = 1
    /\ ends_with(render_dependency_tree(node, <<>>, TRUE, FALSE)[1], str_reference_marker)

\* C8 as claimed: for an entry with two components where the provider of one
\* requires the consumer trait of the other, the root has exactly two
\* children, the consumer nodes of the two components in entry order, and
\* every nested occurrence of the shared consumer trait is a reference leaf
\* rendered as one line ending in the reference marker.
C8_DiamondReferenceLeaf ==
    Built =>
        \A i, j \in 1..Len(arg.component_infos) :
            (Len(arg.component_infos) = 2 /\ i # j /\ ProviderRequires(arg, i, j)) =>
                LET tree == Unwrap(res)
                IN  /\ Len(tree.children) = 2
                    /\ IsConsumerNode(tree.children[1]) /\ IsConsumerNode(tree.children[2])
                    /\ ConsumerNameOf(tree.children[j]) = ConsumerTraitOfComponent(arg, j)
                    /\ ~tree.children[1].is_reference /\ ~tree.children[2].is_reference
                    /\ NestedOccurrences(tree, Unwrap(ConsumerTraitOfComponent(arg, j))) # {}
                    /\ \A node \in NestedOccurrences(tree, Unwrap(ConsumerTraitOfComponent(arg, j))) :
                        IsReferenceLeaf(node)

\* The diamond with the shared component first: its nested occurrence is a
\* reference leaf and the tree has been rendered.
C8_Witness ==
    /\ fn = "render_dependency_tree"
    /\ Len(arg.component_infos) = 2
    /\ ProviderRequires(arg, 2, 1)
    /\ \E node \in NestedOccurrences(Unwrap(res), Unwrap(ConsumerTraitOfComponent(arg, 1))) :
        IsReferenceLeaf(node)
    /\ \E i \in 1..Len(out) : ends_with(out[i], str_reference_marker)

\* An entry with field info, one component, one provider relationship, which
\* matches the component, one getter trait note and no nested consumer trait.
SingleChainEntry(entry) ==
    /\ IsSome(entry.field_info)
    /\ Len(entry.component_infos) = 1
    /\ Len(entry.provider_relationships) = 1
    /\ IsSome(match_component_to_provider(entry.component_infos[1],
                                          entry.provider_relationships))
    /\ Len(GetterTraits(entry.delegation_notes)) = 1
    /\ extract_nested_consumer_traits(entry.delegation_notes) = <<>>

\* check -> consumer -> provider -> getter -> field, the field unsatisfied.
IsSingleChain(tree) ==
    /\ Len(NodesOf(tree)) = 5
    /\ \A i \in 1..4 : NodesOf(tree)[i].children = <<NodesOf(tree)[i + 1]>>
    /\ NodesOf(tree)[5].children = <<>>
    /\ [i \in 1..5 |-> NodesOf(tree)[i].trait_type]
          = <<Some(str_check_trait), Some(str_consumer_trait), Some(str_provider_trait),
              Some(str_getter_trait), None>>
    /\ NodesOf(tree)[5].is_satisfied = Some(FALSE)
    /\ starts_with(NodesOf(tree)[5].description, <<"f", "i", "e", "l", "d", " ", Tick>>)

MaxPieces == 3

RECURSIVE Flatten(_)
Flatten(pieces) == IF pieces = <<>> THEN <<>> ELSE Head(pieces) \o Flatten(Tail(pieces))

\* The texts made of at most n fragments of F.
Concats(F, n) == { Flatten(pieces) : pieces \in SeqsUpTo(F, n) }

\* Paths with the library prefixes, whole and in parts.
PrefixFragments == { <<"c">>, <<"c", "g", "p", ":", ":">>, <<"g", "p", ":", ":">>, <<"c", "g",
        "p", ":", ":", "p", "r", "e", "l", "u", "d", "e", ":", ":">>, <<"F", "o", "o">> }

\* strip_module_prefixes(arg)
StripModulePrefixes ==
    /\ fn = "none"
    /\ fn' = "strip_module_prefixes"
    /\ res' = <<strip_module_prefixes(arg)>>
    /\ UNCHANGED <<arg, dbVars, runVars>>

\* strip_module_prefixes applied to the result of strip_module_prefixes(arg);
\* res holds both results.
StripModulePrefixesAgain ==
    /\ fn = "strip_module_prefixes"
    /\ fn' = "strip_module_prefixes twice"
    /\ res' = Append(res, strip_module_prefixes(res[1]))
    /\ UNCHANGED <<arg, dbVars, runVars>>

\* C11: namespace-prefix stripping is idempotent: stripping the stripped text
\* again gives the stripped text.
C11_StripIdempotent ==
    fn = "strip_module_prefixes twice" => res[2] = res[1]

\* A text with a library prefix has been stripped twice.
C11_Witness ==
    /\ fn = "strip_module_prefixes twice"
    /\ contains(arg, <<"c", "g", "p", ":", ":">>)
    /\ res[1] # arg

\* str::trim_end_matches(c)
RECURSIVE trim_end_matches(_, _)
trim_end_matches(s, c) ==
    IF s # <<>> /\ s[Len(s)] = c THEN trim_end_matches(SubSeq(s, 1, Len(s) - 1), c) ELSE s

\* The loop of extract_balanced_generic from offset i on with the given
\* depth: the offset of the `>` that brings the depth to 0, None when the
\* text ends first.
RECURSIVE BalancedEnd(_, _, _)
BalancedEnd(text, i, depth) ==
    IF i >= Len(text) THEN None
    ELSE IF text[i + 1] = "<" THEN BalancedEnd(text, i + 1, depth + 1)
    ELSE IF text[i + 1] = ">"
         THEN IF depth - 1 = 0 THEN Some(i) ELSE BalancedEnd(text, i + 1, depth - 1)
    ELSE BalancedEnd(text, i + 1, depth)

\* extract_balanced_generic with the depth counting left out: the text up to
\* the first `>`.
extract_balanced_generic_first_close(text, start_pos) ==
    LET end_pos == find(SliceFrom(text, start_pos), <<">">>)
    IN  IF IsSome(end_pos)
        THEN Some(trim(Slice(text, start_pos, start_pos + Unwrap(end_pos))))
        ELSE Some(trim(trim_end_matches(SliceFrom(text, start_pos), ">")))

\* cgp_patterns::extract_balanced_generic
extract_balanced_generic(text, start_pos) ==
    LET end_pos == BalancedEnd(text, start_pos, 1)
    IN  IF IsSome(end_pos)
        THEN Some(trim(Slice(text, start_pos, Unwrap(end_pos))))
        ELSE Some(trim(trim_end_matches(SliceFrom(text, start_pos), ">")))

\* Generic types, nested up to depth 3, whole and in parts.
BracketFragments ==
    { <<"F", "o", "o", "<">>, <<" ", "B", "a", "r", " ">>, <<">">>, <<"B", "a", "z", "<", "Q",
            "u", "x", "<", "T", ">", ">">>, <<",", " ">>, <<"x">> }

\* extract_balanced_generic(arg, start_pos), start_pos just after a `<` of arg.
ExtractBalancedGeneric ==
    /\ fn = "none"
    /\ \E start_pos \in { i + 1 : i \in Matches(arg, <<"<">>) } :
        /\ lastOp' = <<"extract_balanced_generic", start_pos>>
        /\ res' = extract_balanced_generic(arg, start_pos)
    /\ fn' = "extract_balanced_generic"
    /\ UNCHANGED <<arg, db, added, runVars>>

\* The number of characters c of text at the offsets a .. b - 1.
Count(text, c, a, b) == Cardinality({ i \in a..(b - 1) : text[i + 1] = c })

\* The offsets of the `>` characters that close the bracket opened just
\* before start_pos: as many `<` as `>` stand in between.
Closers(text, start_pos) ==
    { j \in start_pos..(Len(text) - 1) :
        /\ text[j + 1] = ">"
        /\ Count(text, "<", start_pos, j) = Count(text, ">", start_pos, j)
        /\ \A k \in start_pos..j :
              Count(text, ">", start_pos, k) <= Count(text, "<", start_pos, k) }

\* C12 as claimed: called just after a `<` whose bracket is closed, the
\* extraction returns exactly the text between that `<` and its matching `>`.
C12_ExactlyBetweenBrackets ==
    (fn = "extract_balanced_generic" /\ Closers(arg, lastOp[2]) # {})
        => res = Some(Slice(arg, lastOp[2], FirstIndex(Closers(arg, lastOp[2]))))

\* C12 as amended: called just after a `<` whose bracket is closed, the
\* extraction returns the text between that `<` and its matching `>` with
\* the spaces at its two ends trimmed.
C12_BetweenBracketsTrimmed ==
    (fn = "extract_balanced_generic" /\ Closers(arg, lastOp[2]) # {})
        => res = Some(trim(Slice(arg, lastOp[2], FirstIndex(Closers(arg, lastOp[2])))))

\* A generic nested to depth 3 has been extracted from between the outer
\* brackets, with a suffix left behind.
C12_Witness ==
    /\ fn = "extract_balanced_generic"
    /\ arg = <<"F", "o", "o", "<", "B", "a", "z", "<", "Q", "u", "x", "<", "T", ">", ">", ">">>
    /\ lastOp[2] = 4
    /\ res = Some(<<"B", "a", "z", "<", "Q", "u", "x", "<", "T", ">", ">">>)

(***************************************************************************)
(* Texts are sequences of bytes.  A character outside ASCII is its first   *)
(* byte followed by continuation bytes; slicing a str at an offset that is *)
(* not the first byte of a character panics.                               *)
(***************************************************************************)

\* A continuation byte of a multi-byte character.
Cont == "cont"
\* The first byte of a two-byte letter (U+00E9) and of a three-byte
\* character that is neither letter nor digit (U+2192).
EAcute == "U+00E9"
Arrow == "U+2192"

is_char_boundary(s, i) == i = 0 \/ i = Len(s) \/ (i < Len(s) /\ s[i + 1] # Cont)

\* The outcome of a call: a value, or a panic.
Returned(v) == [panicked |-> FALSE, value |-> v]
Panicked == [panicked |-> TRUE, value |-> <<>>]

is_ascii_digit(c) == c \in {"0", "1", "2", "3", "4", "5", "6", "7", "8", "9"}

\* char::is_alphabetic
is_alphabetic(c) == (is_ascii_alphanumeric(c) /\ ~is_ascii_digit(c)) \/ c = EAcute

\* char::is_alphanumeric
is_alphanumeric(c) == is_ascii_alphanumeric(c) \/ c = EAcute

\* The bytes of a character, given by its first byte.
encode_utf8(c) == IF c = EAcute THEN <<c, Cont>> ELSE IF c = Arrow THEN <<c, Cont, Cont>> ELSE <<c>>

\* The value of a digit string.
RECURSIVE DigitsValue(_)
DigitsValue(s) ==
    IF s = <<>> THEN 0
    ELSE 10 * DigitsValue(SubSeq(s, 1, Len(s) - 1))
             + (CHOOSE d \in 0..9 : ToString(d) = s[Len(s)])

\* str::parse::<usize>().ok(): digits, after an optional plus sign.
parse_usize(s) ==
    LET digits == IF s # <<>> /\ Head(s) = "+" THEN Tail(s) ELSE s
    IN  IF digits # <<>> /\ \A i \in 1..Len(digits) : is_ascii_digit(digits[i])
        THEN Some(DigitsValue(digits))
        ELSE None

\* cgp_patterns::extract_symbol_length
extract_symbol_length(text) ==
    LET start == find(text, <<"S", "y", "m", "b", "o", "l", "<">>)
        after_symbol == SliceFrom(text, Unwrap(start) + 7)
        comma_pos == find(after_symbol, <<",">>)
    IN  IF start = None THEN None
        ELSE IF comma_pos = None THEN None
        ELSE parse_usize(trim(Slice(after_symbol, 0, Unwrap(comma_pos))))

\* The while loop of extract_chars_from_pattern from idx on.
RECURSIVE CharsFrom(_, _, _)
CharsFrom(text, idx, chars) ==
    IF ~(idx < Len(text)) THEN Returned(chars)
    ELSE IF ~is_char_boundary(text, idx) THEN Panicked
    ELSE IF starts_with(SliceFrom(text, idx), <<"C", "h", "a", "r", "s", "<", "'">>)
         THEN LET char_start == idx + 7
                  ch == text[char_start + 1]
              IN  IF char_start < Len(text) /\ ch # "'" /\ ch # "_" /\ is_alphabetic(ch)
                  THEN CharsFrom(text, idx + 1, Append(chars, ch))
                  ELSE CharsFrom(text, idx + 1, chars)
    ELSE CharsFrom(text, idx + 1, chars)

\* cgp_patterns::extract_chars_from_pattern
extract_chars_from_pattern(text) == CharsFrom(text, 0, <<>>)

\* chars.iter().collect::<String>()
RECURSIVE collect_String(_)
collect_String(chars) ==
    IF chars = <<>> THEN <<>> ELSE encode_utf8(Head(chars)) \o collect_String(Tail(chars))

\* The part of the message extract_field_name_from_symbol looks at.
relevant_part(message) ==
    LET pos == find(message, <<"b", "u", "t", " ", "t", "r", "a", "i", "t">>)
    IN  IF IsSome(pos) THEN Slice(message, 0, Unwrap(pos)) ELSE message

\* cgp_patterns::extract_field_name_from_symbol: (field_name, is_complete)
extract_field_name_from_symbol(message) ==
    LET expected_length == extract_symbol_length(relevant_part(message))
        chars == extract_chars_from_pattern(relevant_part(message))
        field_name == collect_String(chars.value)
    IN  IF expected_length = None THEN Returned(None)
        ELSE IF chars.panicked THEN Panicked
        ELSE IF chars.value = <<>> THEN Returned(None)
        ELSE Returned(Some(<<field_name, Len(field_name) = Unwrap(expected_length)>>))

\* The offsets of the markers of the text that are followed by a character.
Markers(text) == { i \in Matches(text, <<"C", "h", "a", "r", "s", "<", "'">>) : i + 7 < Len(text) }

\* FieldInfo.has_unknown_chars: set when a character of the chain was
\* skipped.
has_unknown_chars(message) ==
    \E i \in Markers(relevant_part(message)) : ~is_alphabetic(relevant_part(message)[i + 8])

\* Symbol texts, whole and in parts: markers with a letter, with the
\* placeholder, with a digit and with a letter outside ASCII.
SymbolFragments ==
    { <<"S", "y", "m", "b", "o", "l", "<", "2", ",", " ">>, <<"C", "h", "a", "r", "s", "<", "'",
            "h", "'", ",", " ">>, <<"C", "h", "a", "r", "s", "<", "'", "_", "'", ",", " ">>,
                    <<"C", "h", "a", "r", "s", "<", "'", "1", "'", ",", " ">>,
      <<"C", "h", "a", "r", "s", "<", "'">> \o <<EAcute, Cont>> \o <<"'", ",", " ">>,
      <<" ", "b", "u", "t", " ", "t", "r", "a", "i", "t", " ">>, <<"S", "y", "m", "b", "o", "l",
              "<", "1", ",", " ", "C", "h", "a", "r", "s", "<", "'", "w", "'", ",", " ", "N",
                      "i", "l", ">", ">">> }

\* extract_field_name_from_symbol(arg)
ExtractFieldNameFromSymbol ==
    /\ fn = "none"
    /\ fn' = "extract_field_name_from_symbol"
    /\ res' = extract_field_name_from_symbol(arg)
    /\ UNCHANGED <<arg, dbVars, runVars>>

\* The k-th smallest element of a set of numbers.
Nth(S, k) == CHOOSE i \in S : Cardinality({ j \in S : j < i }) = k - 1

\* The characters after the markers of the text, in order, the letters only.
MarkerLetters(text) ==
    LET letters == { i \in Markers(text) : is_alphabetic(text[i + 8]) }
    IN  [k \in 1..Cardinality(letters) |-> text[Nth(letters, k) + 8]]

\* The text is a Symbol<N, Chars<...>> text: the length it declares.
DeclaredLength(text) ==
    LET start == find(text, <<"S", "y", "m", "b", "o", "l", "<">>)
        digits == Slice(text, Unwrap(start) + 7, Unwrap(start) + 8)
    IN  IF IsSome(start) /\ Unwrap(start) + 9 <= Len(text) /\ is_ascii_digit(digits[1])
           /\ text[Unwrap(start) + 9] = "," /\ Markers(text) # {}
        THEN Some(DigitsValue(digits))
        ELSE None

\* C13: for a Symbol<N, Chars<...>> text the reconstructed field name is the
\* letters that follow the markers, in order, with the placeholders skipped;
\* is_complete tells whether their number is N; has_unknown_chars is set
\* whenever a placeholder was skipped.
C13_FieldReconstruction ==
    (fn = "extract_field_name_from_symbol" /\ IsSome(DeclaredLength(relevant_part(arg))))
        => LET text == relevant_part(arg)
               letters == MarkerLetters(text)
           IN  /\ ~res.panicked
               /\ res.value = Some(<<collect_String(letters),
                                     Len(letters) = Unwrap(DeclaredLength(text))>>)
               /\ (\E i \in Markers(text) : text[i + 8] = "_") => has_unknown_chars(arg)

\* The field name of a Symbol text with a placeholder has been reconstructed
\* and is not complete.
C13_Witness ==
    /\ fn = "extract_field_name_from_symbol"
    /\ arg = <<"S", "y", "m", "b", "o", "l", "<", "2", ",", " ", "C", "h", "a", "r", "s", "<",
            "'", "h", "'", ",", " ", "C", "h", "a", "r", "s", "<", "'", "_", "'", ",", " ">>
    /\ res = Returned(Some(<<<<"h">>, FALSE>>))
    /\ has_unknown_chars(arg)

(***************************************************************************)
(* The four extractors on the bytes of a message.                          *)
(***************************************************************************)

str_Component == <<"C", "o", "m", "p", "o", "n", "e", "n", "t">>

\* cgp_patterns::extract_component_from_can_use
extract_component_from_can_use(message) ==
    LET start == find(message, <<"C", "a", "n", "U", "s", "e", "C", "o", "m", "p", "o", "n", "e",
            "n", "t", "<">>)
        after_start == Unwrap(start) + Len(<<"C", "a", "n", "U", "s", "e", "C", "o", "m", "p",
                "o", "n", "e", "n", "t", "<">>)
        component_type == extract_balanced_generic(message, after_start)
    IN  IF start = None THEN None
        ELSE Some(ComponentInfo(Unwrap(component_type),
                                derive_provider_trait_name(Unwrap(component_type))))

\* str::split_whitespace: the words between the spaces.
RECURSIVE split_whitespace(_, _)
split_whitespace(s, word) ==
    IF s = <<>> THEN (IF word = <<>> THEN <<>> ELSE <<word>>)
    ELSE IF Head(s) = " "
         THEN (IF word = <<>> THEN <<>> ELSE <<word>>) \o split_whitespace(Tail(s), <<>>)
    ELSE split_whitespace(Tail(s), Append(word, Head(s)))

\* The closure extract_component_info passes to trim_matches.
IsTrimmed(c) == ~is_alphanumeric(c) /\ c \notin {"<", ">", ","}

\* The offsets of the characters of s (of their first bytes).
char_indices(s) == { i \in 0..(Len(s) - 1) : s[i + 1] # Cont }

RECURSIVE trim_start_matches_closure(_)
trim_start_matches_closure(s) ==
    IF s # <<>> /\ IsTrimmed(Head(s))
    THEN trim_start_matches_closure(SliceFrom(s, Len(encode_utf8(Head(s)))))
    ELSE s

RECURSIVE trim_end_matches_closure(_)
trim_end_matches_closure(s) ==
    IF s # <<>> /\ IsTrimmed(s[LastIndex(char_indices(s)) + 1])
    THEN trim_end_matches_closure(Slice(s, 0, LastIndex(char_indices(s))))
    ELSE s

\* word.trim_matches(|c| !c.is_alphanumeric() && c != '<' && c != '>' && c != ',')
trim_matches_closure(word) == trim_end_matches_closure(trim_start_matches_closure(word))

\* The backward loop of extract_component_type_name over the characters at
\* the offsets rest: the start_idx it ends with.
RECURSIVE StartIdx(_, _, _)
StartIdx(before_component, rest, depth) ==
    IF rest = {} THEN 0
    ELSE LET i == LastIndex(rest)
             ch == before_component[i + 1]
         IN  IF ch = ">" THEN StartIdx(before_component, rest \ {i}, depth + 1)
             ELSE IF ch = "<" THEN StartIdx(before_component, rest \ {i}, depth - 1)
             ELSE IF depth = 0 /\ ~is_alphanumeric(ch) /\ ch # "_" THEN i + 1
             ELSE StartIdx(before_component, rest \ {i}, depth)

\* cgp_patterns::extract_component_type_name
extract_component_type_name(text) ==
    LET component_pos == rfind(text, str_Component)
        before_component == Slice(text, 0, Unwrap(component_pos) + Len(str_Component))
        start_idx == StartIdx(before_component, char_indices(before_component), 0)
    IN  IF ends_with(text, str_Component) /\ ~contains(text, <<"<">>) THEN Returned(Some(text))
        ELSE IF component_pos = None THEN Returned(None)
        ELSE IF ~is_char_boundary(before_component, start_idx) THEN Panicked
        ELSE Returned(Some(SliceFrom(before_component, start_idx)))

\* The for loop of extract_component_info over the words.
RECURSIVE ComponentOfWords(_)
ComponentOfWords(words) ==
    IF words = <<>> THEN Returned(None)
    ELSE LET clean_word == trim_matches_closure(Head(words))
             component_type == extract_component_type_name(clean_word)
         IN  IF ~contains(clean_word, str_Component) THEN ComponentOfWords(Tail(words))
             ELSE IF component_type.panicked THEN Panicked
             ELSE IF component_type.value = None THEN ComponentOfWords(Tail(words))
             ELSE Returned(Some(ComponentInfo(Unwrap(component_type.value),
                            derive_provider_trait_name(Unwrap(component_type.value)))))

\* cgp_patterns::extract_component_info, on the bytes of the message
extract_component_info_bytes(message) ==
    IF IsSome(extract_component_from_can_use(message))
    THEN Returned(extract_component_from_can_use(message))
    ELSE ComponentOfWords(split_whitespace(message, <<>>))

\* full_name.split("::").last()
RECURSIVE split_last(_)
split_last(full_name) ==
    LET pos == find(full_name, <<":", ":">>)
    IN  IF IsSome(pos) THEN split_last(SliceFrom(full_name, Unwrap(pos) + 2)) ELSE full_name

\* cgp_patterns::extract_type_from_not_implemented
extract_type_from_not_implemented(message) ==
    LET start == find(message, <<"i", "s", " ", "n", "o", "t", " ", "i", "m", "p", "l", "e", "m",
            "e", "n", "t", "e", "d", " ", "f", "o", "r", " ", Tick>>)
        after_start == Unwrap(start) + Len(<<"i", "s", " ", "n", "o", "t", " ", "i", "m", "p",
                "l", "e", "m", "e", "n", "t", "e", "d", " ", "f", "o", "r", " ", Tick>>)
        end == find(SliceFrom(message, after_start), <<Tick>>)
    IN  IF start = None THEN None
        ELSE IF end = None THEN None
        ELSE Some(split_last(Slice(message, after_start, after_start + Unwrap(end))))

\* cgp_patterns::extract_field_info, for a diagnostic whose one Help child
\* has the given message
extract_field_info_bytes(message) ==
    LET field_name_result == extract_field_name_from_symbol(message)
        target_type == extract_type_from_not_implemented(message)
    IN  IF ~(contains(message, <<"H", "a", "s", "F", "i", "e", "l", "d">>) /\ contains(message,
            <<"i", "s", " ", "n", "o", "t", " ", "i", "m", "p", "l", "e", "m", "e", "n", "t",
                    "e", "d", " ", "f", "o", "r">>))
        THEN Returned(None)
        ELSE IF field_name_result.panicked THEN Panicked
        ELSE IF field_name_result.value = None THEN Returned(None)
        ELSE IF target_type = None THEN Returned(None)
        ELSE Returned(Some(FieldInfo(Unwrap(field_name_result.value)[1],
                                     Unwrap(field_name_result.value)[2], Unwrap(target_type))))

\* cgp_patterns::extract_type_from_for_to_implement
extract_type_from_for_to_implement(message) ==
    LET start == find(message, <<"f", "o", "r", " ", Tick>>)
        after_start == Unwrap(start) + 5
        end == find(SliceFrom(message, after_start), <<Tick, " ", "t", "o">>)
    IN  IF start = None THEN None
        ELSE IF end = None THEN None
        ELSE Some(split_last(Slice(message, after_start, after_start + Unwrap(end))))

\* The loop of find_comma_at_depth from offset i on.
RECURSIVE CommaFrom(_, _, _)
CommaFrom(text, i, depth) ==
    IF i >= Len(text) THEN None
    ELSE IF text[i + 1] = "<" THEN CommaFrom(text, i + 1, depth + 1)
    ELSE IF text[i + 1] = ">" THEN CommaFrom(text, i + 1, depth - 1)
    ELSE IF text[i + 1] = "," /\ depth = 0 THEN Some(i)
    ELSE CommaFrom(text, i + 1, depth)

\* cgp_patterns::find_comma_at_depth
find_comma_at_depth(start_pos, text) == CommaFrom(text, start_pos, 0)

\* cgp_patterns::extract_provider_relationship, on the bytes of the message
extract_provider_relationship_bytes(message) ==
    LET provider_type == extract_type_from_for_to_implement(message)
        start == find(message, <<"I", "s", "P", "r", "o", "v", "i", "d", "e", "r", "F", "o", "r",
                "<">>)
        after_start == Unwrap(start) + Len(<<"I", "s", "P", "r", "o", "v", "i", "d", "e", "r",
                "F", "o", "r", "<">>)
        comma_pos == find_comma_at_depth(after_start, message)
        component == trim(Slice(message, after_start, Unwrap(comma_pos)))
        context == extract_balanced_generic(message, Unwrap(comma_pos) + 1)
    IN  IF ~contains(message, <<"I", "s", "P", "r", "o", "v", "i", "d", "e", "r", "F", "o",
            "r">>) THEN Returned(None)
        ELSE IF provider_type = None THEN Returned(None)
        ELSE IF start = None THEN Returned(None)
        ELSE IF comma_pos = None THEN Returned(None)
        ELSE Returned(Some(ProviderRelationship(Unwrap(provider_type), component,
                                                Unwrap(context))))

\* cgp_patterns::extract_consumer_trait, on the bytes of the message
extract_consumer_trait_bytes(message) ==
    LET start == find(message, <<"r", "e", "q", "u", "i", "r", "e", "d", " ", "b", "y", " ", "a",
            " ", "b", "o", "u", "n", "d", " ", "i", "n", " ", Tick>>)
        after_start == Unwrap(start) + Len(<<"r", "e", "q", "u", "i", "r", "e", "d", " ", "b",
                "y", " ", "a", " ", "b", "o", "u", "n", "d", " ", "i", "n", " ", Tick>>)
        end == find(SliceFrom(message, after_start), <<Tick>>)
    IN  IF start = None THEN Returned(None)
        ELSE IF end = None THEN Returned(None)
        ELSE Returned(Some(Slice(message, after_start, after_start + Unwrap(end))))

\* Messages with a component, whole and in parts, with a character outside
\* ASCII.
ComponentFragments ==
    { <<"C", "a", "n", "U", "s", "e", "C", "o", "m", "p", "o", "n", "e", "n", "t", "<">>, <<"F",
            "o", "o", "C", "o", "m", "p", "o", "n", "e", "n", "t">>, <<"<", "T", ">">>, <<" ">>,
                    <<"a">> \o <<Arrow, Cont, Cont>>,
      <<"W", "r", "a", "p", "<", "B", "a", "r", ",", " ">> }

\* Help messages about a field, whole and in parts.
FieldFragments ==
    { <<"H", "a", "s", "F", "i", "e", "l", "d", "<", "S", "y", "m", "b", "o", "l", "<", "1", ",",
            " ", "C", "h", "a", "r", "s", "<", "'", "h", "'", ",", " ", "N", "i", "l", ">", ">",
                    ">">>, <<" ", "i", "s", " ", "n", "o", "t", " ", "i", "m", "p", "l", "e",
                            "m", "e", "n", "t", "e", "d", " ", "f", "o", "r", " ", Tick>>, <<"m",
                                    ":", ":", "R", Tick>>,
      <<"H", "a", "s", "F", "i", "e", "l", "d", "<", "S", "y", "m", "b", "o", "l", "<", "1", ",",
              " ", "C", "h", "a", "r", "s", "<", "'">> \o <<EAcute, Cont>> \o <<"'", ",", " ",
                      "N", "i", "l", ">", ">", ">">>, <<EAcute, Cont>> }

\* Notes about a provider and about a bound, whole and in parts.
ProviderFragments ==
    { <<"f", "o", "r", " ", Tick, "a", ":", ":", "P", Tick, " ", "t", "o", " ", "i", "m", "p",
            "l", "e", "m", "e", "n", "t", " ", Tick>>, <<"I", "s", "P", "r", "o", "v", "i", "d",
                    "e", "r", "F", "o", "r", "<">>, <<"C", ",", " ">>, <<"X", "<", "Y", ">", ">",
                            Tick>>,
      <<"r", "e", "q", "u", "i", "r", "e", "d", " ", "b", "y", " ", "a", " ", "b", "o", "u", "n",
              "d", " ", "i", "n", " ", Tick>>, <<"C", "a", "n", "F", "o", "o", Tick>> }

ExtractComponentInfo ==
    /\ fn = "none"
    /\ fn' = "extract_component_info"
    /\ res' = extract_component_info_bytes(arg)
    /\ UNCHANGED <<arg, dbVars, runVars>>

ExtractFieldInfo ==
    /\ fn = "none"
    /\ fn' = "extract_field_info"
    /\ res' = extract_field_info_bytes(arg)
    /\ UNCHANGED <<arg, dbVars, runVars>>

ExtractProviderRelationship ==
    /\ fn = "none"
    /\ fn' = "extract_provider_relationship"
    /\ res' = extract_provider_relationship_bytes(arg)
    /\ UNCHANGED <<arg, dbVars, runVars>>

ExtractConsumerTrait ==
    /\ fn = "none"
    /\ fn' = "extract_consumer_trait"
    /\ res' = extract_consumer_trait_bytes(arg)
    /\ UNCHANGED <<arg, dbVars, runVars>>

Extractors ==
    { "extract_component_info", "extract_field_info", "extract_provider_relationship",
      "extract_consumer_trait" }

\* C14: every extractor returns Some or None on every text and never panics;
\* where the bracket of CanUseComponent< is not closed the component type is
\* the rest of the text trimmed of its trailing `>`.
C14_ExtractorsNeverPanic ==
    /\ fn \in Extractors => ~res.panicked
    /\ (/\ fn = "extract_component_info"
        /\ IsSome(find(arg, <<"C", "a", "n", "U", "s", "e", "C", "o", "m", "p", "o", "n", "e",
                "n", "t", "<">>))
        /\ Closers(arg, Unwrap(find(arg, <<"C", "a", "n", "U", "s", "e", "C", "o", "m", "p", "o",
                "n", "e", "n", "t", "<">>)) + 16) = {})
        => /\ ~res.panicked
           /\ IsSome(res.value)
           /\ Unwrap(res.value).component_type
                = trim(trim_end_matches(SliceFrom(arg, Unwrap(find(arg, <<"C", "a", "n", "U",
                        "s", "e", "C", "o", "m", "p", "o", "n", "e", "n", "t", "<">>)) + 16), ">"))

\* extract_component_info has returned the best-effort component type of a
\* text whose bracket is truncated.
C14_Witness ==
    /\ fn = "extract_component_info"
    /\ arg = <<"C", "a", "n", "U", "s", "e", "C", "o", "m", "p", "o", "n", "e", "n", "t", "<", "W",
            "r", "a", "p", "<", "B", "a", "r", ",", " ", "F", "o", "o", "C", "o", "m", "p", "o",
            "n", "e", "n", "t">>
    /\ ~res.panicked
    /\ Unwrap(res.value).component_type = SliceFrom(arg, 16)

\* The texts the functions are applied to.
PatternTexts ==
    Concats(PrefixFragments, MaxPieces) \cup
    Concats(BracketFragments, MaxPieces) \cup
    Concats(SymbolFragments, MaxPieces) \cup
    Concats(ComponentFragments, MaxPieces) \cup
    Concats(FieldFragments, MaxPieces) \cup
    Concats(ProviderFragments, MaxPieces)

InitPat ==
    /\ db = EmptyMap /\ added = <<>> /\ lastOp = <<"new">>
    /\ RunIdle
    /\ fn = "none"
    /\ arg \in PatternTexts
    /\ res = None

NextPat ==
    \/ StripModulePrefixes
    \/ StripModulePrefixesAgain
    \/ ExtractBalancedGeneric
    \/ ExtractFieldNameFromSymbol
    \/ ExtractComponentInfo
    \/ ExtractFieldInfo
    \/ ExtractProviderRelationship
    \/ ExtractConsumerTrait

SpecPat == InitPat /\ [][NextPat]_vars

(***************************************************************************)
(* More properties of the database.                                        *)
(***************************************************************************)

\* C15: add_diagnostic on a diagnostic without a span flagged primary leaves
\* the database as it was: no entry is created and none is modified.
C15_NoPrimarySpanNoChange ==
    [][(added' # added /\ find_primary_span(lastOp'[2]) = None) => db' = db]_vars

\* A diagnostic without a primary span has been added to a database that
\* holds an entry at the location of its span.
C15_Witness ==
    /\ lastOp[1] = "add"
    /\ find_primary_span(lastOp[2]) = None
    /\ lastOp[2].spans # <<>>
    /\ DOMAIN db # {}

(***************************************************************************)
(* The database read after the two passes: the queries are the last calls  *)
(* of a run.                                                                *)
(***************************************************************************)

\* root_cause::is_root_cause
is_root_cause(entry) ==
    IF IsSome(entry.field_info) THEN TRUE
    ELSE IF entry.provider_relationships # <<>> THEN TRUE
    ELSE FALSE

\* DiagnosticDatabase::get_active_entries, self.entries.values() yielding the
\* entries in the given order of their keys.
get_active_entries_in(entries, order) == [i \in 1..Len(order) |-> entries[order[i]]]

\* root_cause::is_root_cause(entry) for an entry of the database
IsRootCause ==
    /\ fn = "none"
    /\ \E k \in DOMAIN db :
        /\ arg' = Some(db[k])
        /\ res' = Some(is_root_cause(db[k]))
    /\ fn' = "is_root_cause"
    /\ UNCHANGED <<dbVars, runVars>>

\* db.get_active_entries(): std's HashMap hashes with keys drawn at random in
\* every process, so any order of the keys may come out.
GetActiveEntries ==
    /\ fn = "none"
    /\ \E order \in Orders(ActiveKeys(db)) : res' = Some(get_active_entries_in(db, order))
    /\ fn' = "get_active_entries"
    /\ UNCHANGED <<arg, dbVars, runVars>>

\* The first pass and the second pass, before the queries.
AddBeforeQuery == fn = "none" /\ AddDiagnostic
DeduplicateBeforeQuery == fn = "none" /\ Deduplicate

NextQuery ==
    \/ AddBeforeQuery
    \/ DeduplicateBeforeQuery
    \/ IsRootCause
    \/ GetActiveEntries

SpecQuery == Init /\ [][NextQuery]_vars

\* C16: is_root_cause(entry) is true exactly when the entry has field info;
\* an entry with provider relationships or delegation notes only is no root
\* cause.
C16_RootCauseIffFieldInfo ==
    fn = "is_root_cause" => (Unwrap(res) <=> IsSome(Unwrap(arg).field_info))

\* is_root_cause has been asked about an entry that carries provider
\* relationships and no field info.
C16_Witness ==
    /\ fn = "is_root_cause"
    /\ ~IsSome(Unwrap(arg).field_info)
    /\ Unwrap(arg).provider_relationships # <<>>

\* The database of a run that adds the diagnostics of the stream and then
\* deduplicates.
RECURSIVE AddAll(_, _)
AddAll(entries, stream) ==
    IF stream = <<>> THEN entries ELSE AddAll(add_diagnostic(entries, Head(stream)), Tail(stream))

RunDb(stream) == deduplicate(AddAll(EmptyMap, stream))

\* C17: two runs that add the same diagnostic stream and deduplicate get the
\* active entries in the same order: whatever get_active_entries returned in
\* this run, it returns in any other run on the stream.
C17_SameOrderInEveryRun ==
    (fn = "get_active_entries" /\ db = RunDb(added))
        => \A order \in Orders(ActiveKeys(RunDb(added))) :
              get_active_entries_in(RunDb(added), order) = Unwrap(res)

\* get_active_entries has returned two entries after a run.
C17_Witness ==
    /\ fn = "get_active_entries"
    /\ db = RunDb(added)
    /\ Len(Unwrap(res)) = 2

\* Two diagnostics of the stream report the same missing field of the same
\* context type for different components.
SameFieldOtherComponent(d1, d2) ==
    /\ IsSome(find_primary_span(d1)) /\ IsSome(find_primary_span(d2))
    /\ IsSome(extract_field_info(d1))
    /\ extract_field_info(d1) = extract_field_info(d2)
    /\ IsSome(extract_component_info_from_diagnostic(d1))
    /\ IsSome(extract_component_info_from_diagnostic(d2))
    /\ extract_component_info_from_diagnostic(d1) # extract_component_info_from_diagnostic(d2)

\* C19: diagnostics that report the same missing field of the same context
\* type for different components end up in a single entry, so that one
\* diagnostic is rendered for them: one active entry carries that field info.
C19_OneEntryForOneMissingField ==
    (fn = "get_active_entries" /\ db = RunDb(added))
        => \A i, j \in 1..Len(added) :
              SameFieldOtherComponent(added[i], added[j])
                  => Cardinality({ n \in 1..Len(Unwrap(res)) :
                         Unwrap(res)[n].field_info = extract_field_info(added[i]) }) = 1

\* The active entries have been read after a run over two diagnostics that
\* report the same missing field for two components.
C19_Witness ==
    /\ fn = "get_active_entries"
    /\ db = RunDb(added)
    /\ \E i, j \in 1..Len(added) : SameFieldOtherComponent(added[i], added[j])

NoDuplicates(s) == \A i, j \in 1..Len(s) : s[i] = s[j] => i = j

\* C18: in every reachable state no entry holds the same delegation note
\* twice or the same provider relationship twice, whether they came from the
\* diagnostic that created the entry or from one merged later.
C18_NoDuplicateFacts ==
    \A k \in DOMAIN db :
        /\ NoDuplicates(db[k].delegation_notes)
        /\ NoDuplicates(db[k].provider_relationships)

\* An entry has been created from a diagnostic that yields the same
\* relationship twice, and a later diagnostic has been merged into it.
C18_Witness ==
    \E k \in DOMAIN db :
        /\ Cardinality(AddedAt(k)) > 1
        /\ ~NoDuplicates(extract_provider_relationships_from_diagnostic(db[k].original))

(***************************************************************************)
(* More properties of the pipeline.                                        *)
(***************************************************************************)

\* C20: reading a message that is not a CGP compiler diagnostic leaves the
\* database as it was and, in Json mode, returns the message as it came (it
\* is collected unmodified); only messages is_cgp_diagnostic accepts are
\* handed to add_diagnostic.
C20_PassThrough ==
    [][consumed' # consumed =>
          LET message == consumed'[Len(consumed')]
          IN  /\ ~IsCgpMessage(message) =>
                    /\ db' = db
                    /\ added' = added
                    /\ mode = "Json" => nonCgp' = Append(nonCgp, message)
              /\ added' # added =>
                    /\ IsCgpMessage(message)
                    /\ added' = Append(added, message.message)]_vars

\* In Json mode a compiler message that is not CGP, with a primary span, has
\* been read after a CGP message and collected; the database holds the entry
\* of the CGP message only.
C20_Witness ==
    /\ mode = "Json"
    /\ Len(consumed) = 2
    /\ IsCgpMessage(consumed[1])
    /\ consumed[2].type = "CompilerMessage"
    /\ ~IsCgpMessage(consumed[2])
    /\ IsSome(find_primary_span(consumed[2].message))
    /\ nonCgp = <<consumed[2]>>
    /\ Cardinality(DOMAIN db) = 1

(***************************************************************************)
(* The flat delegation list: error_formatting::format_delegation_chain and *)
(* what it calls.  The functions slice the text by byte offsets; on the    *)
(* ASCII notes used here bytes and characters coincide.                    *)
(***************************************************************************)

\* root_cause::deduplicate_delegation_notes
RECURSIVE deduplicate_delegation_notes_from(_, _)
deduplicate_delegation_notes_from(deduped, notes) ==
    IF notes = <<>> THEN deduped
    ELSE deduplicate_delegation_notes_from(
             IF InSeq(Head(notes), deduped) THEN deduped ELSE Append(deduped, Head(notes)),
             Tail(notes))

deduplicate_delegation_notes(notes) == deduplicate_delegation_notes_from(<<>>, notes)

\* error_formatting::find_top_level_comma
find_top_level_comma(start_pos, text) == CommaFrom(text, start_pos, 0)

\* The loop of find_matching_bracket from offset i on: the offset after the
\* `>` that brings the depth to 0.
RECURSIVE MatchingFrom(_, _, _)
MatchingFrom(text, i, depth) ==
    IF i >= Len(text) THEN None
    ELSE IF text[i + 1] = "<" THEN MatchingFrom(text, i + 1, depth + 1)
    ELSE IF text[i + 1] = ">"
         THEN IF depth - 1 = 0 THEN Some(i + 1) ELSE MatchingFrom(text, i + 1, depth - 1)
    ELSE MatchingFrom(text, i + 1, depth)

\* error_formatting::find_matching_bracket
find_matching_bracket(start_pos, text) == MatchingFrom(text, start_pos, 1)

unwrap_or(o, default) == IF IsSome(o) THEN Unwrap(o) ELSE default

str_IsProviderFor_open == <<"I", "s", "P", "r", "o", "v", "i", "d", "e", "r", "F", "o", "r", "<">>
str_CanUseComponent_open == <<"C", "a", "n", "U", "s", "e", "C", "o", "m", "p", "o", "n", "e",
        "n", "t", "<">>

\* error_formatting::replace_is_provider_for
replace_is_provider_for(message) ==
    LET start == find(message, str_IsProviderFor_open)
        after_start == Unwrap(start) + Len(str_IsProviderFor_open)
        comma_pos == find_top_level_comma(after_start, message)
        component_name == trim(Slice(message, after_start, Unwrap(comma_pos)))
        provider_trait_name ==
            unwrap_or(derive_provider_trait_name(component_name),
                      <<"t", "h", "e", " ", "p", "r", "o", "v", "i", "d", "e", "r", " ", "t",
                              "r", "a", "i", "t", " ", "f", "o", "r", " ",
                                      Tick>> \o component_name \o <<Tick>>)
        end_pos == unwrap_or(find_matching_bracket(after_start, message), Len(message))
        before == Slice(message, 0, Unwrap(start))
        after == SliceFrom(message, end_pos)
        has_opening_backtick == ends_with(before, <<Tick>>)
        has_closing_backtick == starts_with(after, <<Tick>>)
    IN  IF ~contains(message, <<"I", "s", "P", "r", "o", "v", "i", "d", "e", "r", "F", "o",
            "r">>) THEN message
        ELSE IF ~IsSome(start) THEN message
        ELSE IF ~IsSome(comma_pos) THEN message
        ELSE IF has_opening_backtick /\ has_closing_backtick
        THEN Slice(before, 0, Len(before) - 1) \o <<"t", "h", "e", " ", "p", "r", "o", "v", "i",
                "d", "e", "r", " ", "t", "r", "a", "i", "t", " ", Tick>>
             \o provider_trait_name \o <<Tick>> \o SliceFrom(after, 1)
        ELSE before \o <<"t", "h", "e", " ", "p", "r", "o", "v", "i", "d", "e", "r", " ", "t",
                "r", "a", "i", "t", " ", Tick>> \o provider_trait_name \o <<Tick>> \o after

\* error_formatting::replace_can_use_component.  end_pos is already the
\* offset after the `>`; message[end_pos + 1..] panics when that is past the
\* end of the text.
replace_can_use_component(message) ==
    LET start == find(message, str_CanUseComponent_open)
        after_start == Unwrap(start) + Len(str_CanUseComponent_open)
        end_pos == unwrap_or(find_matching_bracket(after_start, message), Len(message))
        component_name == trim(Slice(message, after_start, end_pos))
        replacement == <<"u", "s", "e", " ", "c", "o", "m", "p", "o", "n", "e", "n", "t", " ",
                Tick>> \o component_name \o <<Tick>>
        before == Slice(message, 0, Unwrap(start))
        after == SliceFrom(message, end_pos + 1)
        has_opening_backtick == ends_with(before, <<Tick>>)
        has_closing_backtick == starts_with(after, <<Tick>>)
    IN  IF ~contains(message, <<"C", "a", "n", "U", "s", "e", "C", "o", "m", "p", "o", "n", "e",
            "n", "t">>) THEN Returned(message)
        ELSE IF ~IsSome(start) THEN Returned(message)
        ELSE IF end_pos + 1 > Len(message) THEN Panicked
        ELSE IF has_opening_backtick /\ has_closing_backtick
        THEN Returned(Slice(before, 0, Len(before) - 1) \o replacement \o SliceFrom(after, 1))
        ELSE Returned(before \o replacement \o after)

\* error_formatting::format_delegation_note
format_delegation_note(note) ==
    LET replaced == replace_can_use_component(
                        replace_is_provider_for(strip_module_prefixes(note)))
        result == replaced.value
        ellipsis_pos == find(result, <<",", " ", ".", ".", ".", ">">>)
    IN  IF replaced.panicked THEN Panicked
        ELSE IF Len(result) > 150 /\ IsSome(ellipsis_pos)
        THEN Returned(Slice(result, 0, Unwrap(ellipsis_pos)) \o <<".", ".", ".">>)
        ELSE replaced

\* The loop of format_delegation_chain_legacy over the deduplicated notes.
RECURSIVE FormatKeptNotes(_, _, _)
FormatKeptNotes(formatted, notes, kept_provider_types) ==
    IF notes = <<>> THEN Returned(formatted)
    ELSE LET note == Head(notes)
             provider_info == extract_provider_relationship_bytes(note).value
             should_keep ==
                 IF IsSome(provider_info)
                 THEN kept_provider_types = {}
                      \/ Unwrap(provider_info).provider_type \in kept_provider_types
                 ELSE TRUE
             formatted_note == format_delegation_note(note)
         IN  IF ~should_keep THEN FormatKeptNotes(formatted, Tail(notes), kept_provider_types)
             ELSE IF formatted_note.panicked THEN Panicked
             ELSE FormatKeptNotes(Append(formatted, <<Arrow, " ">> \o formatted_note.value),
                                  Tail(notes), kept_provider_types)

\* error_formatting::format_delegation_chain_legacy
format_delegation_chain_legacy(entry) ==
    LET all_inner_providers == detect_inner_providers(entry.provider_relationships)
        deduped_relationships ==
            deduplicate_provider_relationships(entry.provider_relationships)
        kept_provider_types ==
            { deduped_relationships[i].provider_type : i \in 1..Len(deduped_relationships) }
        deduped_notes == deduplicate_delegation_notes(entry.delegation_notes)
        IsOuter(r) == ~InSeq(r.provider_type, all_inner_providers)
        outer_providers == SelectSeq(deduped_relationships, IsOuter)
        hint ==
            IF all_inner_providers # <<>> /\ IsSome(entry.field_info)
               /\ outer_providers # <<>>
            THEN << <<Arrow, " ">> \o <<"T", "h", "e", " ", "e", "r", "r", "o", "r", " ", "i",
                    "n", " ", Tick>> \o outer_providers[1].provider_type
                    \o <<Tick, " ", "i", "s", " ", "c", "a", "u", "s", "e", "d", " ", "b", "y",
                            " ", "t", "h", "e", " ", "i", "n", "n", "e", "r", " ", "p", "r", "o",
                                    "v", "i", "d", "e", "r", " ", Tick>> \o all_inner_providers[1]
                    \o <<Tick>> >>
            ELSE <<>>
    IN  FormatKeptNotes(hint, deduped_notes, kept_provider_types)

\* error_formatting::format_delegation_chain
format_delegation_chain(entry) ==
    CHOOSE chain \in
        { IF IsSome(tree)
          THEN Returned(render_dependency_tree(Unwrap(tree), <<>>, TRUE, TRUE))
          ELSE format_delegation_chain_legacy(entry) :
            tree \in { build_dependency_tree(entry) } } : TRUE

note_can_use == <<"r", "e", "q", "u", "i", "r", "e", "d", " ", "f", "o", "r", " ", Tick, "R",
        "e", "c", "t", "a", "n", "g", "l", "e", Tick, " ", "t", "o", " ", "i", "m", "p", "l",
                "e", "m", "e", "n", "t", " ", Tick, "C", "a", "n", "U", "s", "e", "C", "o", "m",
                        "p", "o", "n", "e", "n", "t", "<", "A", "r", "e", "a", "C", "a", "l",
                                "c", "u", "l", "a", "t", "o", "r", "C", "o", "m", "p", "o", "n",
                                        "e", "n", "t", ">", Tick>>
note_provider_scaled ==
    <<"r", "e", "q", "u", "i", "r", "e", "d", " ", "f", "o", "r", " ", Tick, "S", "c", "a", "l",
            "e", "d", "A", "r", "e", "a", "<", "R", "e", "c", "t", "a", "n", "g", "l", "e", "A",
                    "r", "e", "a", ">", Tick, " ", "t", "o", " ", "i", "m", "p", "l", "e", "m",
                            "e", "n", "t", " ", Tick, "I", "s", "P", "r", "o", "v", "i", "d",
                                    "e", "r", "F", "o", "r", "<", "A", "r", "e", "a", "C", "a",
                                            "l", "c", "u", "l", "a", "t", "o", "r", "C", "o",
                                                    "m", "p", "o", "n", "e", "n", "t", ",", " ",
                                                            "R", "e", "c", "t", "a", "n", "g",
                                                                    "l", "e", ">", Tick>>
\* Notes without backticks: no context type can be read from them.
note_plain == <<"r", "e", "q", "u", "i", "r", "e", "d", " ", "f", "o", "r", " ", "R", "e", "c",
        "t", "a", "n", "g", "l", "e", " ", "t", "o", " ", "i", "m", "p", "l", "e", "m", "e", "n",
                "t", " ", "H", "a", "s", "N", "a", "m", "e">>
note_plain_can_use ==
    <<"r", "e", "q", "u", "i", "r", "e", "d", " ", "f", "o", "r", " ", "R", "e", "c", "t", "a",
            "n", "g", "l", "e", " ", "t", "o", " ", "i", "m", "p", "l", "e", "m", "e", "n", "t",
                    " ", "C", "a", "n", "U", "s", "e", "C", "o", "m", "p", "o", "n", "e", "n",
                            "t", "<", "A", "r", "e", "a", "C", "a", "l", "c", "u", "l", "a", "t",
                                    "o", "r", "C", "o", "m", "p", "o", "n", "e", "n", "t", ">">>

ChainNoteLists ==
    { <<>>,
      <<note_getter>>,
      <<note_plain>>,
      <<note_plain, note_plain_can_use>>,
      <<note_provider_area, note_getter, note_can_use>>,
      <<note_getter, note_provider_area, note_getter>>,
      <<note_provider_density, note_provider_area, note_nested_area>>,
      <<note_provider_scaled, note_provider_area, note_getter>> }

ChainEntries ==
    { TreeEntry(check_trait, field_info, component_infos, <<>>, rels, notes,
                <<"t", "h", "e", " ", "t", "r", "a", "i", "t", " ", "b", "o", "u", "n", "d", " ",
                        Tick, "R", "e", "c", "t", "a", "n", "g", "l", "e", ":", " ", "C", "a",
                                "n", "U", "s", "e", "C", "o", "m", "p", "o", "n", "e", "n", "t",
                                        "<", "A", "r", "e", "a", "C", "a", "l", "c", "u", "l",
                                                "a", "t", "o", "r", "C", "o", "m", "p", "o", "n",
                                                        "e", "n", "t", ">", Tick, " ", "i", "s",
                                                                " ", "n", "o", "t", " ", "s",
                                                                        "a", "t", "i", "s", "f",
                                                                                "i", "e", "d">>) :
        check_trait \in { None, Some(<<"C", "a", "n", "U", "s", "e", "R", "e", "c", "t", "a",
                "n", "g", "l", "e">>) },
        field_info \in { None, Some(FieldInfo(<<"h", "e", "i", "g", "h", "t">>, TRUE,
                str_Rectangle)) },
        component_infos \in { <<>>, <<CompAreaCalculator>> },
        rels \in { <<>>, <<RelInner>>, <<RelInner, RelOuter>>, <<RelOuter, RelInner>> },
        notes \in ChainNoteLists }

InitChain ==
    /\ db = EmptyMap /\ added = <<>> /\ lastOp = <<"new">>
    /\ RunIdle
    /\ fn = "none"
    /\ arg \in ChainEntries
    /\ res = None

FormatDelegationChain ==
    /\ fn = "none"
    /\ fn' = "format_delegation_chain"
    /\ res' = format_delegation_chain(arg)
    /\ UNCHANGED <<arg, dbVars, runVars>>

NextChain == FormatDelegationChain

SpecChain == InitChain /\ [][NextChain]_vars

\* No check trait, or no context type from the field info or the notes.
NoCheckContextPair(entry) ==
    \/ ~IsSome(entry.check_trait)
    \/ /\ ~IsSome(entry.field_info)
       /\ \A i \in 1..Len(entry.delegation_notes) :
            ~IsSome(ContextOfNote(entry.delegation_notes[i]))

\* lines is made of the notes of a sub-list of notes, in the order of notes,
\* each simplified and behind the arrow.
RECURSIVE IsFlatListOf(_, _)
IsFlatListOf(lines, notes) ==
    IF lines = <<>> THEN TRUE
    ELSE IF notes = <<>> THEN FALSE
    ELSE IF ~format_delegation_note(Head(notes)).panicked
            /\ Head(lines) = <<Arrow, " ">> \o format_delegation_note(Head(notes)).value
         THEN IsFlatListOf(Tail(lines), Tail(notes))
         ELSE IsFlatListOf(lines, Tail(notes))

\* C21: for an entry without a check trait, or without a context type from
\* its field info or delegation notes, build_dependency_tree yields no tree
\* and format_delegation_chain returns the flat list: delegation notes of the
\* entry in their original order, each simplified and prefixed with the arrow,
\* and nothing else.
C21_FallbackFlatList ==
    (NoCheckContextPair(arg) /\ fn = "format_delegation_chain") =>
        /\ build_dependency_tree(arg) = None
        /\ ~res.panicked
        /\ IsFlatListOf(res.value, arg.delegation_notes)

\* The fallback has run on three notes of which one is dropped and two are
\* listed.
C21_Witness ==
    /\ fn = "format_delegation_chain"
    /\ ~IsSome(arg.check_trait)
    /\ Len(arg.delegation_notes) = 3
    /\ ~res.panicked
    /\ res.value = << <<Arrow, " ">> \o format_delegation_note(note_provider_area).value,
                      <<Arrow, " ">> \o format_delegation_note(note_nested_area).value >>

(***************************************************************************)
(* The source snippet and its labels: error_formatting::                   *)
(* build_source_and_labels.  The file system is an input: what each of the *)
(* three reads the function may attempt returns.                           *)
(***************************************************************************)

MaxSpans == 2

\* The line feed and carriage return characters.
LF == "LF"
CR == "CR"

\* cargo_metadata::DiagnosticSpan, the fields the renderers read; text holds
\* the text of each DiagnosticSpanLine.
DiagnosticSpan(file_name, line_start, column_start, column_end, label, text) ==
    [file_name |-> file_name, line_start |-> line_start, column_start |-> column_start,
     column_end |-> column_end, label |-> label, text |-> text]

\* usize::saturating_sub
saturating_sub(a, b) == IF a >= b THEN a - b ELSE 0

max(a, b) == IF a >= b THEN a ELSE b

\* str::lines: the pieces between line feeds, a final line feed ending the
\* last line, and a carriage return before a line feed dropped.
RECURSIVE lines_from(_, _)
lines_from(s, line) ==
    IF s = <<>> THEN IF line = <<>> THEN <<>> ELSE <<line>>
    ELSE IF Head(s) = LF
         THEN <<IF line # <<>> /\ line[Len(line)] = CR
                THEN SubSeq(line, 1, Len(line) - 1) ELSE line>>
              \o lines_from(Tail(s), <<>>)
    ELSE lines_from(Tail(s), Append(line, Head(s)))

lines(s) == lines_from(s, <<>>)

\* [..].join("\n")
RECURSIVE join(_, _)
join(pieces, sep) ==
    IF pieces = <<>> THEN <<>>
    ELSE IF Len(pieces) = 1 THEN pieces[1]
    ELSE pieces[1] \o sep \o join(Tail(pieces), sep)

\* std::fs::read_to_string(&first_span.file_name).or_else(..): the path as
\* given, then joined to the current directory, then to its parent.
read_source_file(fs) ==
    IF IsSome(fs.as_given) THEN fs.as_given
    ELSE IF ~fs.current_dir_ok THEN None
    ELSE IF IsSome(fs.in_current_dir) THEN fs.in_current_dir
    ELSE IF fs.has_parent /\ IsSome(fs.in_parent) THEN fs.in_parent
    ELSE None

\* The byte offset of a span in the file: the lines before line_start, each
\* with its line feed, and the column.
RECURSIVE bytes_before(_, _, _)
bytes_before(file_lines, line_idx, line_start) ==
    IF line_idx >= Len(file_lines) THEN 0
    ELSE IF line_idx + 1 < line_start
    THEN Len(file_lines[line_idx + 1]) + 1 + bytes_before(file_lines, line_idx + 1, line_start)
    ELSE 0

str_unsatisfied_trait_bound == <<"u", "n", "s", "a", "t", "i", "s", "f", "i", "e", "d", " ", "t",
        "r", "a", "i", "t", " ", "b", "o", "u", "n", "d">>

LabeledSpan(label, offset, length) == [label |-> label, offset |-> offset, length |-> length]

label_in_file(span, file_content) ==
    LabeledSpan(Some(unwrap_or(span.label, str_unsatisfied_trait_bound)),
                bytes_before(lines(file_content), 0, span.line_start)
                    + saturating_sub(span.column_start, 1),
                max(saturating_sub(span.column_end, span.column_start), 1))

label_in_snippet(span) ==
    LabeledSpan(Some(unwrap_or(span.label, str_unsatisfied_trait_bound)),
                saturating_sub(span.column_start, 1),
                max(saturating_sub(span.column_end, span.column_start), 1))

NamedSource(name, source) == [name |-> name, source |-> source]

\* build_source_and_labels with a label for the first span only.
build_source_and_labels_first_label(primary_spans, fs) ==
    LET first_span == primary_spans[1]
        file_result == read_source_file(fs)
        source_text == join(first_span.text, <<LF>>)
    IN  IF primary_spans = <<>> THEN <<None, <<>>>>
        ELSE IF IsSome(file_result)
        THEN <<Some(NamedSource(first_span.file_name, Unwrap(file_result))),
               <<label_in_file(first_span, Unwrap(file_result))>> >>
        ELSE IF source_text = <<>> THEN <<None, <<>>>>
        ELSE <<Some(NamedSource(first_span.file_name, source_text)),
               <<label_in_snippet(first_span)>> >>

\* error_formatting::build_source_and_labels, for the primary spans of the
\* entry and the file system it runs on.
build_source_and_labels(primary_spans, fs) ==
    LET first_span == primary_spans[1]
        file_result == read_source_file(fs)
        source_text == join(first_span.text, <<LF>>)
    IN  IF primary_spans = <<>> THEN <<None, <<>>>>
        ELSE IF IsSome(file_result)
        THEN <<Some(NamedSource(first_span.file_name, Unwrap(file_result))),
               [i \in 1..Len(primary_spans) |->
                   label_in_file(primary_spans[i], Unwrap(file_result))]>>
        ELSE IF source_text = <<>> THEN <<None, <<>>>>
        ELSE <<Some(NamedSource(first_span.file_name, source_text)),
               [i \in 1..Len(primary_spans) |-> label_in_snippet(primary_spans[i])]>>

str_density_rs == <<"s", "r", "c", "/", "d", "e", "n", "s", "i", "t", "y", "_", "3", ".", "r", "s">>
str_other_rs == <<"s", "r", "c", "/", "o", "t", "h", "e", "r", ".", "r", "s">>

\* A span inside one line, one at column 0 without text, one that ends on a
\* later line at a smaller column, one past the end of the file whose only
\* text line is empty, and one in another file.
SpanInLine ==
    DiagnosticSpan(str_density_rs, 2, 5, 9, Some(<<"r", "e", "q", "u", "i", "r", "e", "d", " ",
            "h", "e", "r", "e">>), <<<<" ", " ", " ", " ", "a", "r", "e", "a">>>>)
SpanColumnZero == DiagnosticSpan(str_density_rs, 1, 0, 0, None, <<>>)
SpanMultiLine ==
    DiagnosticSpan(str_density_rs, 2, 9, 3, None, <<<<" ", " ", " ", " ", "A", "r", "e", "a",
            ":", " ", "{">>, <<" ", " ", "}">>>>)
SpanEmptyText == DiagnosticSpan(str_density_rs, 5, 1, 1, None, <<<<>>>>)
SpanOtherFile == DiagnosticSpan(str_other_rs, 1, 3, 4, None, <<<<"x", "y">>>>)

\* A span of width 0 and a span that starts at column 0, both with text.
SpanZeroWidth == DiagnosticSpan(str_density_rs, 3, 3, 3, None, <<<<" ", " ", "}">>>>)
SpanColumnZeroText == DiagnosticSpan(str_density_rs, 1, 0, 2, None, <<<<"f", "n", " ", "a">>>>)

SourceSpans ==
    { SpanInLine, SpanColumnZero, SpanMultiLine, SpanEmptyText, SpanOtherFile, SpanZeroWidth,
      SpanColumnZeroText }

file_as_given == <<"f", "n", " ", "a">> \o <<LF>> \o <<" ", " ", " ", " ", "a", "r", "e",
        "a">> \o <<CR, LF>> \o <<" ", " ", "}">> \o <<LF>>
file_in_current_dir == <<"m", "o", "d", " ", "b", ";">> \o <<LF>>
file_in_parent == <<"m", "o", "d", " ", "c", ";">>

FileSystems ==
    [as_given : { None, Some(<<>>), Some(file_as_given) },
     current_dir_ok : BOOLEAN,
     in_current_dir : { None, Some(file_in_current_dir) },
     has_parent : BOOLEAN,
     in_parent : { None, Some(file_in_parent) }]

\* Some read of the first span's file succeeds, and what the reads that can
\* succeed return.
CanBeRead(fs) ==
    \/ IsSome(fs.as_given)
    \/ fs.current_dir_ok /\ IsSome(fs.in_current_dir)
    \/ fs.current_dir_ok /\ fs.has_parent /\ IsSome(fs.in_parent)

FileContents(fs) ==
    { Unwrap(c) : c \in { c \in {fs.as_given, fs.in_current_dir, fs.in_parent} : IsSome(c) } }

\* The text embedded in a span, its lines joined by line feeds.
EmbeddedSnippet(span) == join(span.text, <<LF>>)

\* C22: build_source_and_labels returns a result for every entry and file
\* system.  With primary spans: when the source file can be read the source is
\* the file content; when it cannot, the source is the first span's embedded
\* snippet; when that is empty too there is no source and no label.  Whenever
\* a source is returned there is exactly one label per primary span.
C22_SnippetFallback ==
    fn = "build_source_and_labels" =>
        LET spans == arg.primary_spans
            source == res[1]
            labels == res[2]
        IN  /\ (spans # <<>> /\ CanBeRead(arg.fs)) =>
                /\ IsSome(source)
                /\ Unwrap(source).name = spans[1].file_name
                /\ Unwrap(source).source \in FileContents(arg.fs)
            /\ (spans # <<>> /\ ~CanBeRead(arg.fs) /\ EmbeddedSnippet(spans[1]) # <<>>) =>
                source = Some(NamedSource(spans[1].file_name, EmbeddedSnippet(spans[1])))
            /\ (spans # <<>> /\ ~CanBeRead(arg.fs) /\ EmbeddedSnippet(spans[1]) = <<>>) =>
                res = <<None, <<>>>>
            /\ IsSome(source) => Len(labels) = Len(spans)
            /\ ~IsSome(source) => labels = <<>>

\* The file of two primary spans could not be read and the snippet of the
\* first one is the source, with two labels.
C22_Witness ==
    /\ fn = "build_source_and_labels"
    /\ Len(arg.primary_spans) = 2
    /\ ~CanBeRead(arg.fs)
    /\ arg.fs.as_given = None /\ IsSome(arg.fs.in_current_dir)
    /\ res[1] = Some(NamedSource(str_density_rs, EmbeddedSnippet(SpanMultiLine)))
    /\ Len(res[2]) = 2

(***************************************************************************)
(* The snippet of render_compiler_message::render_cgp_error.  What         *)
(* extract_missing_field_info finds in the children is an input; the       *)
(* output is the text up to the end of the snippet, the sections after it  *)
(* read no span.                                                           *)
(***************************************************************************)

\* n.to_string()
RECURSIVE to_string(_)
to_string(n) ==
    LET digits == <<"0", "1", "2", "3", "4", "5", "6", "7", "8", "9">>
    IN  IF n < 10 THEN <<digits[n + 1]>> ELSE to_string(n \div 10) \o <<digits[(n % 10) + 1]>>

\* c.repeat(n)
repeat(c, n) == [i \in 1..n |-> c]

\* format!("{:4}", n)
pad4(n) == repeat(" ", saturating_sub(4, Len(to_string(n)))) \o to_string(n)

\* c.repeat(a - b) on usize.  With a < b the subtraction panics in a build
\* with overflow checks; without them it wraps to a count above isize::MAX
\* and repeat panics with a capacity overflow.
repeat_difference(c, a, b) == IF a < b THEN Panicked ELSE Returned(repeat(c, a - b))

CgpDiagnostic(code, message, missing_field_info, spans) ==
    [code |-> code, message |-> message, missing_field_info |-> missing_field_info,
     spans |-> spans]

\* CgpErrorMetadata::from_diagnostic, the is_provider_trait_error flag
is_provider_trait_error(diagnostic) ==
    /\ contains(diagnostic.message, <<"A", "r", "e", "a", "C", "a", "l", "c", "u", "l", "a", "t",
            "o", "r">>)
    /\ ~contains(diagnostic.message, <<"A", "r", "e", "a", "C", "a", "l", "c", "u", "l", "a",
            "t", "o", "r", "C", "o", "m", "p", "o", "n", "e", "n", "t">>)

\* diagnostic.spans.iter().find(|s| s.is_primary)
find_primary(spans) ==
    LET hits == { i \in 1..Len(spans) : spans[i].is_primary }
    IN  IF hits = {} THEN None ELSE Some(spans[FirstIndex(hits)].span)

\* The loop of render_cgp_error over the text lines of the primary span.
RECURSIVE render_text_lines(_, _, _)
render_text_lines(output, span, i) ==
    IF i >= Len(span.text) THEN Returned(output)
    ELSE LET line == output \o pad4(span.line_start + i) \o <<" ", "|", " ">> \o span.text[i + 1]
                         \o <<LF>>
             spaces == repeat_difference(" ", span.column_start, 1)
             carets == repeat_difference("^", span.column_end, span.column_start)
         IN  IF i # 0 THEN render_text_lines(line, span, i + 1)
             ELSE IF spaces.panicked THEN Panicked
             ELSE IF carets.panicked THEN Panicked
             ELSE render_text_lines(line \o <<" ", " ", " ", " ", " ", "|",
                     " ">> \o spaces.value \o carets.value
                                         \o <<" ">> \o unwrap_or(span.label, <<>>)
                                         \o <<LF>>,
                                    span, i + 1)

location_line(span) ==
    <<" ", " ", "-", "-", ">",
            " ">> \o span.file_name \o <<":">> \o to_string(span.line_start) \o <<":">>
        \o to_string(span.column_start) \o <<LF>>

\* render_compiler_message::render_cgp_error
render_cgp_error(diagnostic) ==
    LET primary_span == find_primary(diagnostic.spans)
        header == IF IsSome(diagnostic.code)
                  THEN <<"e", "r", "r", "o", "r", "[">> \o Unwrap(diagnostic.code) \o <<"]", ":",
                          " ">>
                  ELSE <<"e", "r", "r", "o", "r", ":", " ">>
        field_info == Unwrap(diagnostic.missing_field_info)
        with_field == header \o <<"m", "i", "s", "s", "i", "n", "g", " ", "f", "i", "e", "l",
                "d", " ", Tick>> \o field_info.field_name
                          \o <<Tick, " ", "r", "e", "q", "u", "i", "r", "e", "d", " ", "b", "y",
                                  " ", "C", "G", "P", " ", "c", "o", "m", "p", "o", "n", "e",
                                          "n", "t">> \o <<LF>>
        snippet == render_text_lines(with_field \o location_line(Unwrap(primary_span))
                                         \o <<" ", " ", " ", "|">> \o <<LF>>,
                                     Unwrap(primary_span), 0)
    IN  IF is_provider_trait_error(diagnostic) /\ ~IsSome(diagnostic.missing_field_info)
        THEN Returned(<<>>)
        ELSE IF IsSome(diagnostic.missing_field_info)
        THEN IF ~IsSome(primary_span) THEN Returned(with_field \o <<" ", " ", " ", "|">> \o <<LF>>)
             ELSE IF snippet.panicked THEN Panicked
             ELSE Returned(snippet.value \o <<" ", " ", " ", "|">> \o <<LF>>)
        ELSE Returned(header \o diagnostic.message \o <<LF>>
                      \o (IF IsSome(primary_span) THEN location_line(Unwrap(primary_span))
                          ELSE <<>>))

str_E0277 == <<"E", "0", "2", "7", "7">>
msg_can_use_area ==
    <<"t", "h", "e", " ", "t", "r", "a", "i", "t", " ", "b", "o", "u", "n", "d", " ", Tick, "R",
            "e", "c", "t", "a", "n", "g", "l", "e", ":", " ", "C", "a", "n", "U", "s", "e", "C",
                    "o", "m", "p", "o", "n", "e", "n", "t", "<", "A", "r", "e", "a", "C", "a",
                            "l", "c", "u", "l", "a", "t", "o", "r", "C", "o", "m", "p", "o", "n",
                                    "e", "n", "t", ">", Tick, " ", "i", "s", " ", "n", "o", "t",
                                            " ", "s", "a", "t", "i", "s", "f", "i", "e", "d">>
msg_provider_area == <<"t", "h", "e", " ", "t", "r", "a", "i", "t", " ", "b", "o", "u", "n", "d",
        " ", Tick, "R", "e", "c", "t", "a", "n", "g", "l", "e", "A", "r", "e", "a", ":", " ",
                "A", "r", "e", "a", "C", "a", "l", "c", "u", "l", "a", "t", "o", "r", "<", "R",
                        "e", "c", "t", "a", "n", "g", "l", "e", ">", Tick, " ", "i", "s", " ",
                                "n", "o", "t", " ", "s", "a", "t", "i", "s", "f", "i", "e", "d">>

MissingFieldInfo(field_name, struct_name, required_trait) ==
    [field_name |-> field_name, struct_name |-> struct_name, required_trait |-> required_trait]

FlaggedSpans == [span : SourceSpans, is_primary : BOOLEAN]

CgpDiagnostics ==
    { CgpDiagnostic(code, message, missing_field_info, spans) :
        code \in { None, Some(str_E0277) },
        message \in { msg_can_use_area, msg_provider_area },
        missing_field_info \in
            { None, Some(MissingFieldInfo(<<"h", "e", "i", "g", "h", "t">>, str_Rectangle, <<"H",
                    "a", "s", "R", "e", "c", "t", "a", "n", "g", "l", "e", "F", "i", "e", "l",
                            "d", "s">>)) },
        spans \in SeqsUpTo(FlaggedSpans, MaxSpans) }

InitSource ==
    /\ db = EmptyMap /\ added = <<>> /\ lastOp = <<"new">>
    /\ RunIdle
    /\ fn = "none"
    /\ arg \in [primary_spans : SeqsUpTo(SourceSpans, MaxSpans), fs : FileSystems]
               \cup CgpDiagnostics
    /\ res = None

BuildSourceAndLabels ==
    /\ fn = "none"
    /\ "primary_spans" \in DOMAIN arg
    /\ fn' = "build_source_and_labels"
    /\ res' = build_source_and_labels(arg.primary_spans, arg.fs)
    /\ UNCHANGED <<arg, dbVars, runVars>>

RenderCgpError ==
    /\ fn = "none"
    /\ "spans" \in DOMAIN arg
    /\ fn' = "render_cgp_error"
    /\ res' = render_cgp_error(arg)
    /\ UNCHANGED <<arg, dbVars, runVars>>

NextSource == BuildSourceAndLabels \/ RenderCgpError

SpecSource == InitSource /\ [][NextSource]_vars

\* The number of carets in a rendered text.
HighlightedLength(output) == Cardinality({ i \in 1..Len(output) : output[i] = "^" })

\* The primary span of the diagnostic has text, so that render_cgp_error
\* draws the line of carets.
DrawsCarets(diagnostic) ==
    /\ IsSome(diagnostic.missing_field_info)
    /\ IsSome(find_primary(diagnostic.spans))
    /\ Unwrap(find_primary(diagnostic.spans)).text # <<>>

\* C25: for every primary span, also one with column_start = 0 or with
\* column_end < column_start, the renderers finish, the column offset is
\* column_start - 1 or 0 when there is no column before it, and the
\* highlighted length is at least 1: in the labels of build_source_and_labels
\* and in the line of carets of render_cgp_error.
C25_SpanArithmeticNeverFails ==
    /\ fn = "build_source_and_labels" =>
          \A i \in 1..Len(res[2]) :
              /\ res[2][i].length >= 1
              /\ res[2][i].offset >= 0
              /\ ~CanBeRead(arg.fs) =>
                    res[2][i].offset = IF arg.primary_spans[i].column_start >= 1
                                       THEN arg.primary_spans[i].column_start - 1 ELSE 0
    /\ fn = "render_cgp_error" =>
          /\ ~res.panicked
          /\ DrawsCarets(arg) => HighlightedLength(res.value) >= 1

\* render_cgp_error has drawn the snippet of a span that ends on a later
\* line at a smaller column.
C25_Witness ==
    /\ fn = "render_cgp_error"
    /\ DrawsCarets(arg)
    /\ find_primary(arg.spans) = Some(SpanMultiLine)

(***************************************************************************)
(* error_formatting::match_component_to_provider on lists of               *)
(* relationships.                                                          *)
(***************************************************************************)

str_prelude_AreaCalculatorComponent == <<"c", "g", "p", ":", ":", "p", "r", "e", "l", "u", "d",
        "e", ":", ":", "A", "r", "e", "a", "C", "a", "l", "c", "u", "l", "a", "t", "o", "r", "C",
                "o", "m", "p", "o", "n", "e", "n", "t">>
str_AreaCalculatorComponent_T == <<"A", "r", "e", "a", "C", "a", "l", "c", "u", "l", "a", "t",
        "o", "r", "C", "o", "m", "p", "o", "n", "e", "n", "t", "<", "T", ">">>

MatchComponents ==
    { CompAreaCalculator, CompDensityCalculator, CompFoo,
      ComponentOf(str_prelude_AreaCalculatorComponent),
      ComponentInfo(str_AreaCalculatorComponent, None) }

\* Relationships whose component is the component type, the component type
\* behind a module path, a name that derives the same provider trait, and
\* other components.
MatchRelationships ==
    { RelInner, RelDensityFromMassField, RelFoo,
      ProviderRelationship(str_RectangleArea, str_prelude_AreaCalculatorComponent,
                           str_Rectangle),
      ProviderRelationship(str_ScaledArea_RectangleArea, str_AreaCalculatorComponent_T,
                           str_Rectangle) }

InitMatch ==
    /\ db = EmptyMap /\ added = <<>> /\ lastOp = <<"new">>
    /\ RunIdle
    /\ fn = "none"
    /\ arg \in [component_info : MatchComponents,
                provider_relationships : SeqsUpTo(MatchRelationships, MaxRels)]
    /\ res = None

MatchComponentToProvider ==
    /\ fn = "none"
    /\ fn' = "match_component_to_provider"
    /\ res' = match_component_to_provider(arg.component_info, arg.provider_relationships)
    /\ UNCHANGED <<arg, dbVars, runVars>>

NextMatch == MatchComponentToProvider

SpecMatch == InitMatch /\ [][NextMatch]_vars

\* The relationship's component is the component type, module prefixes
\* aside.
IsExactMatch(rel, component_info) ==
    strip_module_prefixes(rel.component) = strip_module_prefixes(component_info.component_type)

\* The relationship's component derives the provider trait name of the
\* component.
IsTraitMatch(rel, component_info) ==
    /\ IsSome(component_info.provider_trait)
    /\ IsSome(derive_provider_trait_name(rel.component))
    /\ Unwrap(derive_provider_trait_name(rel.component))
         = Unwrap(component_info.provider_trait)

\* C23: match_component_to_provider returns the first relationship that is an
\* exact match when there is one, wherever it is in the list; when there is
\* none, the first relationship that is a provider-trait match; and None when
\* there is neither.
C23_ExactBeforeTraitMatch ==
    fn = "match_component_to_provider" =>
        LET rels == arg.provider_relationships
            info == arg.component_info
        IN  /\ (\E i \in 1..Len(rels) : IsExactMatch(rels[i], info)) =>
                \E i \in 1..Len(rels) :
                    /\ res = Some(rels[i])
                    /\ IsExactMatch(rels[i], info)
                    /\ \A j \in 1..(i - 1) : ~IsExactMatch(rels[j], info)
            /\ ((\A i \in 1..Len(rels) : ~IsExactMatch(rels[i], info))
                    /\ (\E i \in 1..Len(rels) : IsTraitMatch(rels[i], info))) =>
                \E i \in 1..Len(rels) :
                    /\ res = Some(rels[i])
                    /\ IsTraitMatch(rels[i], info)
                    /\ \A j \in 1..(i - 1) : ~IsTraitMatch(rels[j], info)
            /\ (\A i \in 1..Len(rels) :
                    ~IsExactMatch(rels[i], info) /\ ~IsTraitMatch(rels[i], info)) =>
                res = None

\* An exact match was returned from behind a provider-trait match.
C23_Witness ==
    /\ fn = "match_component_to_provider"
    /\ Len(arg.provider_relationships) = 2
    /\ IsTraitMatch(arg.provider_relationships[1], arg.component_info)
    /\ ~IsExactMatch(arg.provider_relationships[1], arg.component_info)
    /\ IsExactMatch(arg.provider_relationships[2], arg.component_info)
    /\ res = Some(arg.provider_relationships[2])

(***************************************************************************)
(* The tree builder on entries with higher-order providers.                *)
(***************************************************************************)

str_DensityFromMassField == <<"D", "e", "n", "s", "i", "t", "y", "F", "r", "o", "m", "M", "a",
        "s", "s", "F", "i", "e", "l", "d">>
str_Cached_DensityFromMassField == <<"C", "a", "c", "h", "e", "d", "<", "D", "e", "n", "s", "i",
        "t", "y", "F", "r", "o", "m", "M", "a", "s", "s", "F", "i", "e", "l", "d", ">">>

RelCachedDensity ==
    ProviderRelationship(str_Cached_DensityFromMassField, str_DensityCalculatorComponent,
                         str_Rectangle)

HigherOrderRelationshipLists ==
    { <<>>, <<RelInner>>, <<RelOuter>>, <<RelInner, RelOuter>>, <<RelOuter, RelInner>>,
      <<RelOuter, RelInner, RelDensityFromMassField>>,
      <<RelOuter, RelInner, RelCachedDensity, RelDensityFromMassField>> }

HigherOrderEntries ==
    { TreeEntry(Some(<<"C", "a", "n", "U", "s", "e", "R", "e", "c", "t", "a", "n", "g", "l",
            "e">>), field_info, component_infos, deps, rels, notes,
                msg_can_use_area) :
        field_info \in { None, Some(FieldInfo(<<"h", "e", "i", "g", "h", "t">>, TRUE,
                str_Rectangle)) },
        component_infos \in { s \in ComponentLists : \A i \in 1..Len(s) : s[i] # CompFoo },
        deps \in { <<>>, <<ConsumerTraitDependency(str_CanCalculateArea),
                           ConsumerTraitDependency(str_CanCalculateDensity)>> },
        rels \in HigherOrderRelationshipLists,
        notes \in { <<note_getter>>, <<note_provider_area, note_getter>> } }

InitHigher ==
    /\ db = EmptyMap /\ added = <<>> /\ lastOp = <<"new">>
    /\ RunIdle
    /\ fn = "none"
    /\ arg \in HigherOrderEntries
    /\ res = None

NextHigher == BuildDependencyTree

SpecHigher == InitHigher /\ [][NextHigher]_vars

\* The provider types of other relationships of the entry that the provider
\* type contains as a type parameter.
InnerProvidersOf(provider_type, entry) ==
    { entry.provider_relationships[i].provider_type :
        i \in { i \in 1..Len(entry.provider_relationships) :
                  /\ entry.provider_relationships[i].provider_type # provider_type
                  /\ is_contained_type_parameter(
                         entry.provider_relationships[i].provider_type, provider_type) } }

\* The children of a provider node that describe a provider as satisfied.
InnerProviderChildren(node) ==
    LET IsInner(child) ==
            child.trait_type = Some(str_provider_trait) /\ child.is_satisfied = Some(TRUE)
    IN  SelectSeq(node.children, IsInner)

\* The provider node is the one build_provider_nodes_for_component makes for
\* this component and relationship.
IsProviderNodeFor(node, component_info, rel, context_type) ==
    /\ IsSome(component_info.provider_trait)
    /\ node.trait_type = Some(str_provider_trait)
    /\ node.description =
          strip_module_prefixes(FormatProvider(Unwrap(component_info.provider_trait),
                                               context_type, <<"p", "r", "o", "v", "i", "d", "e",
                                                       "r">>, rel.provider_type))

\* C24: a provider node built for a relationship whose provider type contains
\* the provider type of another relationship of the entry as a type parameter
\* has exactly one extra child, which describes an inner provider of that
\* provider type, has is_satisfied = Some(true) and no children; a provider
\* node whose provider type contains no other relationship's provider type
\* has no such child.
C24_InnerProviderHint ==
    (fn = "build_dependency_tree" /\ IsSome(res)) =>
        \A i \in 1..Len(Unwrap(res).children) :
            \A k \in 1..Len(Unwrap(res).children[i].children) :
                \A r \in 1..Len(arg.provider_relationships) :
                    LET node == Unwrap(res).children[i].children[k]
                        rel == arg.provider_relationships[r]
                        component_info == arg.component_infos[i]
                        context_type == Unwrap(arg.field_info).target_type
                        inner == InnerProvidersOf(rel.provider_type, arg)
                        hints == InnerProviderChildren(node)
                    IN  (IsSome(arg.field_info)
                         /\ IsProviderNodeFor(node, component_info, rel, context_type)) =>
                            IF inner = {} THEN hints = <<>>
                            ELSE /\ Len(hints) = 1
                                 /\ hints[1].children = <<>>
                                 /\ \E x \in inner :
                                       hints[1].description =
                                           strip_module_prefixes(
                                               FormatProvider(
                                                   Unwrap(component_info.provider_trait),
                                                   context_type, <<"i", "n", "n", "e", "r", " ",
                                                           "p", "r", "o", "v", "i", "d", "e",
                                                                   "r">>, x))

\* The provider node of ScaledArea<RectangleArea> has been built, with its
\* hint of the inner provider RectangleArea.
C24_Witness ==
    /\ fn = "build_dependency_tree" /\ IsSome(res)
    /\ arg.provider_relationships = <<RelOuter, RelInner>>
    /\ arg.component_infos = <<CompAreaCalculator>>
    /\ IsSome(arg.field_info)
    /\ Len(Unwrap(res).children[1].children) = 1
    /\ IsProviderNodeFor(Unwrap(res).children[1].children[1], CompAreaCalculator, RelOuter,
                         str_Rectangle)
    /\ Len(InnerProviderChildren(Unwrap(res).children[1].children[1])) = 1

(***************************************************************************)
(* What the later calls leave alone in an entry.                           *)
(***************************************************************************)

\* The diagnostic that created the entry at key k.
CreatorOf(k) == added[FirstIndex(AddedAt(k))]

\* C26: the first diagnostic at a key stays the primary one: the original
\* diagnostic, the message and the primary span of every entry are those of
\* the diagnostic that created the entry, whatever was added at the same key
\* afterwards and however often deduplicate ran.
C26_FirstStaysPrimary ==
    \A k \in DOMAIN db :
        /\ db[k].original = CreatorOf(k)
        /\ db[k].message = CreatorOf(k).message.text
        /\ db[k].primary_span = find_primary_span(CreatorOf(k))

\* A later diagnostic with another message and another primary span was
\* merged into an entry, and deduplicate ran last.
C26_Witness ==
    /\ lastOp = <<"dedup">>
    /\ \E k \in DOMAIN db : \E i \in AddedAt(k) :
        /\ added[i].message.text # CreatorOf(k).message.text
        /\ find_primary_span(added[i]) # find_primary_span(CreatorOf(k))

PrimaryLocation(e) == SourceLocation_from_span(Unwrap(e.primary_span))

\* No entry is flagged: the database as add_diagnostic calls alone leave it.
NothingSuppressed == \A k \in DOMAIN db : ~db[k].suppressed

\* C28: suppression never hides the root cause of a location.  When
\* deduplicate runs on a database built by add_diagnostic calls, every entry
\* it leaves suppressed has no field info, no provider relationship and no
\* delegation note, and a non-suppressed entry with the same primary location
\* has field info; no entry with field info is suppressed.
C28_SuppressionKeepsRootCause ==
    [][(lastOp'[1] = "dedup" /\ NothingSuppressed) =>
        \A k \in DOMAIN db' :
            /\ db'[k].suppressed =>
                /\ ~IsSome(db'[k].field_info)
                /\ db'[k].provider_relationships = <<>>
                /\ db'[k].delegation_notes = <<>>
                /\ \E o \in DOMAIN db' :
                    /\ ~db'[o].suppressed
                    /\ PrimaryLocation(db'[o]) = PrimaryLocation(db'[k])
                    /\ IsSome(db'[o].field_info)
            /\ IsSome(db'[k].field_info) => ~db'[k].suppressed]_vars

\* deduplicate suppressed an entry at one location while an entry without
\* field info at another location, where no entry has any, stayed active.
C28_Witness ==
    /\ lastOp = <<"dedup">>
    /\ \E k, g \in DOMAIN db :
        /\ db[k].suppressed
        /\ ~db[g].suppressed
        /\ ~IsSome(db[g].field_info)
        /\ db[g].provider_relationships = <<>>
        /\ db[g].delegation_notes = <<>>
        /\ PrimaryLocation(db[g]) # PrimaryLocation(db[k])
        /\ \E o \in DOMAIN db :
            PrimaryLocation(db[o]) # PrimaryLocation(db[g]) /\ IsSome(db[o].field_info)

(***************************************************************************)
(* deduplicate as its two loops, visiting the map in a given order.        *)
(***************************************************************************)

\* find_related_with_field_info: the first key in visiting order at the
\* location of key whose entry has field info.
find_related_visiting(entries, key, order) ==
    LET hits == { i \in 1..Len(order) :
                    /\ order[i].location = key.location
                    /\ IsSome(entries[order[i]].field_info) }
    IN  IF hits = {} THEN None ELSE Some(order[FirstIndex(hits)])

\* The first loop: keys_to_suppress as the vector it builds from position i on.
RECURSIVE keys_to_suppress_visiting(_, _, _)
keys_to_suppress_visiting(entries, order, i) ==
    IF i > Len(order) THEN <<>>
    ELSE (IF /\ ~IsSome(entries[order[i]].field_info)
             /\ IsSome(find_related_visiting(entries, order[i], order))
             /\ ~(entries[order[i]].delegation_notes # <<>>
                  \/ entries[order[i]].provider_relationships # <<>>)
          THEN <<order[i]>> ELSE <<>>)
         \o keys_to_suppress_visiting(entries, order, i + 1)

\* The second loop: entry.suppressed = true for each collected key.
RECURSIVE mark_suppressed(_, _)
mark_suppressed(entries, keys) ==
    IF keys = <<>> THEN entries
    ELSE mark_suppressed(IF Head(keys) \in DOMAIN entries
                         THEN [entries EXCEPT ![Head(keys)].suppressed = TRUE]
                         ELSE entries,
                         Tail(keys))

deduplicate_visiting(entries, order) ==
    mark_suppressed(entries, keys_to_suppress_visiting(entries, order, 1))

\* The orders in which a map with the keys S can be visited.
VisitingOrders(S) ==
    { order \in [1..Cardinality(S) -> S] : \A i, j \in 1..Cardinality(S) :
                                               order[i] = order[j] => i = j }

\* C29: deduplicate changes nothing but suppressed flags, and those only
\* from false to true: the keys stay the same, every other field of every
\* entry stays the same, the result is the one the two loops produce in
\* whatever order the map is visited, and a second call right after it
\* changes nothing.
C29_DeduplicateOnlyRaisesFlags ==
    [][lastOp'[1] = "dedup" =>
        /\ DOMAIN db' = DOMAIN db
        /\ \A k \in DOMAIN db :
            /\ [db'[k] EXCEPT !.suppressed = db[k].suppressed] = db[k]
            /\ db[k].suppressed => db'[k].suppressed
        /\ \A order \in VisitingOrders(DOMAIN db) : deduplicate_visiting(db, order) = db'
        /\ deduplicate(db') = db']_vars

\* deduplicate ran on an entry that an earlier call had suppressed and that
\* a later diagnostic gave a note or a relationship: it stays suppressed.
C29_Witness ==
    /\ lastOp = <<"dedup">>
    /\ \E g \in DOMAIN db :
        /\ db[g].suppressed
        /\ db[g].delegation_notes # <<>> \/ db[g].provider_relationships # <<>>
        /\ \E o \in DOMAIN db : o.location = g.location /\ IsSome(db[o].field_info)

(***************************************************************************)
(* The relationship deduplicator as a function on lists.                   *)
(***************************************************************************)

\* sub is s with some elements left out, the others in their order.
RECURSIVE IsSubList(_, _)
IsSubList(sub, s) ==
    IF sub = <<>> THEN TRUE
    ELSE IF s = <<>> THEN FALSE
    ELSE IF Head(sub) = Head(s) THEN IsSubList(Tail(sub), Tail(s))
    ELSE IsSubList(sub, Tail(s))

SamePair(a, b) == a.component = b.component /\ a.context = b.context

\* C30: deduplicate_provider_relationships returns its input with some
\* elements left out and the others in their order; for every relationship of
\* the input the result keeps a relationship with the same component and
\* context, so it is empty only for an empty input; applied to its own
\* result it returns that result.
C30_SubListKeepingEveryPair ==
    fn = "deduplicate_provider_relationships" =>
        /\ IsSubList(Unwrap(res), arg)
        /\ \A i \in 1..Len(arg) :
            \E j \in 1..Len(Unwrap(res)) : SamePair(Unwrap(res)[j], arg[i])
        /\ arg # <<>> => Unwrap(res) # <<>>
        /\ deduplicate_provider_relationships(Unwrap(res)) = Unwrap(res)

\* A provider and a provider wrapping it, given for different components:
\* both are kept.
C30_Witness ==
    /\ fn = "deduplicate_provider_relationships"
    /\ Len(arg) = 2
    /\ ~SamePair(arg[1], arg[2])
    /\ is_contained_type_parameter(arg[1].provider_type, arg[2].provider_type)
    /\ Unwrap(res) = arg

====
